---------------------------- MODULE Spec2Model ----------------------------
(***************************************************************************)
(* State-machine model of the mow-demo game server: Player.ts,             *)
(* MapLoader.ts, Enemy.ts and server.ts.                                   *)
(*                                                                         *)
(* Conventions.                                                            *)
(*  - A JavaScript object used as a dictionary (players, enemies) is a     *)
(*    sequence of records in key insertion order, which is the order       *)
(*    for..in and Object.values iterate in (the keys are uuids).           *)
(*  - A Partial<{...}> input is a record with every field; an absent       *)
(*    boolean is FALSE and an absent string is Null (both are falsy, and   *)
(*    the code only tests truthiness or === "attack").                     *)
(*  - Player positions are integers in pixels.  Enemy positions are       *)
(*    fixed-point numbers in 1/SUB pixel, velocities integers in pixel    *)
(*    per second, times in milliseconds.                                   *)
(***************************************************************************)
EXTENDS Integers, Sequences, FiniteSets, TLC

VARIABLES
    mapLoader,           \* server.ts: const mapLoader = new MapLoader(...)
    players,             \* server.ts: players, in key insertion order
    enemies,             \* server.ts: enemies, in key insertion order
    socketIdToPlayerId,  \* server.ts: socketIdToPlayerId
    playerIdToSocketId,  \* server.ts: playerIdToSocketId
    sockets,             \* socket.io: each connection's status and whether
                         \* its client has sent "init"
    db,                  \* MongoDB: connection state and the players collection
    inits,               \* "init" handlers suspended at an await
    saves,               \* updateOne calls of handleAttack still in flight
    nextEnemyId,         \* uuidv4: the next fresh enemy id
    lastUpdateTime,      \* server.ts: lastUpdateTime, in ms since the start
    running,             \* whether the node process is alive
    trace                \* what the last handler that ran called and emitted,
                         \* in order

vars == <<mapLoader, players, enemies, socketIdToPlayerId, playerIdToSocketId,
          sockets, db, inits, saves, nextEnemyId, lastUpdateTime, running,
          trace>>

Null == "null"

-----------------------------------------------------------------------------
(* Sequence helpers *)

RECURSIVE SeqIndexOf(_, _, _)
SeqIndexOf(s, key, i) ==
    IF i > Len(s) THEN 0
    ELSE IF s[i].key = key THEN i
    ELSE SeqIndexOf(s, key, i + 1)

SeqRemoveAt(s, i) == SubSeq(s, 1, i - 1) \o SubSeq(s, i + 1, Len(s))

SeqRange(s) == {s[i] : i \in DOMAIN s}

Abs(n) == IF n < 0 THEN -n ELSE n

-----------------------------------------------------------------------------
(* MapLoader.ts *)

TILE_LAYER == "tilelayer"
NoTile == -1

\* findCollidableTiles: the global ids of the tiles that carry a truthy
\* "collideable" property.
FindCollidableTiles(map) ==
    UNION {{ts.tiles[j].id + ts.firstgid :
                j \in {k \in DOMAIN ts.tiles : ts.tiles[k].collideable}} :
           ts \in SeqRange(map.tilesets)}

\* constructor
NewMapLoader(map) == [map |-> map, collidableTiles |-> FindCollidableTiles(map)]

\* layer.data[y * layer.width + x]; an index outside the array reads undefined.
LayerTile(layer, x, y) ==
    LET index == y * layer.width + x
    IN  IF index + 1 \in DOMAIN layer.data THEN layer.data[index + 1] ELSE NoTile

\* The loop of isTileBlocked from layer i on.
RECURSIVE IsTileBlockedFrom(_, _, _, _)
IsTileBlockedFrom(ml, x, y, i) ==
    IF i > Len(ml.map.layers) THEN FALSE
    ELSE LET layer == ml.map.layers[i]
         IN  IF layer.type # TILE_LAYER THEN IsTileBlockedFrom(ml, x, y, i + 1)
             ELSE IF x < 0 \/ x >= layer.width \/ y < 0 \/ y >= layer.height THEN TRUE
             ELSE IF LayerTile(layer, x, y) \in ml.collidableTiles THEN TRUE
             ELSE IsTileBlockedFrom(ml, x, y, i + 1)

IsTileBlocked(ml, x, y) == IsTileBlockedFrom(ml, x, y, 1)

-----------------------------------------------------------------------------
(* Player.ts *)

TICK_RATE == 20
PLAYER_SPEED == 60
SPRITE_SIZE == 32
TILE_SIZE == 16
COLLISION_X_BUFFER == 2

EmptyInput ==
    [left |-> FALSE, right |-> FALSE, up |-> FALSE, down |-> FALSE,
     direction |-> Null, action |-> Null]

\* constructor; currentInput = {}, isAlive = true, speed = 60
NewPlayer(data) ==
    [key |-> data.playerId,
     playerId |-> data.playerId,
     position |-> data.position,
     level |-> data.level,
     exp |-> data.exp,
     health |-> data.health,
     socketId |-> data.socketId,
     direction |-> data.direction,
     action |-> data.action,
     isAlive |-> TRUE,
     speed |-> PLAYER_SPEED,
     currentInput |-> EmptyInput,
     initSocket |-> Null]   \* model only: the socket whose "init" handler
                            \* stored the entity in players

\* setInput that carries a stored attack over only when the input names
\* no action of its own.
SetInputExplicit(player, input) ==
    LET prev == player.currentInput
    IN  [player EXCEPT !.currentInput =
            IF prev.action = "attack" /\ input.action = Null
            THEN [input EXCEPT !.action = "attack"]
            ELSE input]

\* setInput that adds the flags of the input to the stored ones.
SetInputMerge(player, input) ==
    LET prev == player.currentInput
    IN  [player EXCEPT !.currentInput =
            [left |-> prev.left \/ input.left,
             right |-> prev.right \/ input.right,
             up |-> prev.up \/ input.up,
             down |-> prev.down \/ input.down,
             direction |-> input.direction,
             action |-> IF prev.action = "attack" THEN "attack"
                        ELSE input.action]]

\* setInput that also starts the action named by the input at once.
SetInputActs(player, input) ==
    LET prev == player.currentInput
    IN  [player EXCEPT
            !.currentInput =
                IF prev.action = "attack" THEN [input EXCEPT !.action = "attack"]
                ELSE input,
            !.action = IF input.action # Null THEN input.action ELSE @]

\* A variant of setInput that does not carry a stored attack over
SetInputReplace(player, input) == [player EXCEPT !.currentInput = input]

\* setInput: the new input replaces the stored one, except that a stored
\* "attack" is carried over.
SetInput(player, input) ==
    LET prev == player.currentInput
    IN  [player EXCEPT !.currentInput =
            IF prev.action = "attack" THEN [input EXCEPT !.action = "attack"]
            ELSE input]

IsAttacking(player) == player.currentInput.action = "attack"

\* A variant of newPosition where left wins over right and up over down
CandidatePositionNoCancel(player) ==
    LET input == player.currentInput
        step  == player.speed \div TICK_RATE
    IN  [x |-> IF input.left THEN player.position.x - step
               ELSE IF input.right THEN player.position.x + step
               ELSE player.position.x,
         y |-> IF input.up THEN player.position.y - step
               ELSE IF input.down THEN player.position.y + step
               ELSE player.position.y]

\* newPosition of processInput
CandidatePosition(player) ==
    LET input == player.currentInput
        step  == player.speed \div TICK_RATE
        x1 == IF input.left  THEN player.position.x - step ELSE player.position.x
        x2 == IF input.right THEN x1 + step ELSE x1
        y1 == IF input.up    THEN player.position.y - step ELSE player.position.y
        y2 == IF input.down  THEN y1 + step ELSE y1
    IN  [x |-> x2, y |-> y2]

\* The tile of the collision probe of a position: Math.floor(collisionX / 16),
\* Math.floor(collisionY / 16).
ProbeTile(pos) ==
    LET halfSpriteSize == SPRITE_SIZE \div 2
        collisionX == pos.x - COLLISION_X_BUFFER
        collisionY == pos.y + halfSpriteSize
    IN  [x |-> collisionX \div TILE_SIZE, y |-> collisionY \div TILE_SIZE]

ProbeBlocked(ml, pos) == IsTileBlocked(ml, ProbeTile(pos).x, ProbeTile(pos).y)

\* A variant of processInput without the collision check
ProcessInputUnchecked(player, ml) ==
    LET input == player.currentInput
    IN  [player EXCEPT
            !.position = CandidatePosition(player),
            !.direction = IF input.direction # Null THEN input.direction ELSE @,
            !.action = IF input.action # Null THEN input.action ELSE @,
            !.currentInput = EmptyInput]

\* processInput that takes the direction and the action of the input only
\* when the move is applied.
ProcessInputMovedOnly(player, ml) ==
    LET input == player.currentInput
        newPosition == CandidatePosition(player)
    IN  IF ProbeBlocked(ml, newPosition)
        THEN [player EXCEPT !.currentInput = EmptyInput]
        ELSE [player EXCEPT
                !.position = newPosition,
                !.direction = IF input.direction # Null THEN input.direction ELSE @,
                !.action = IF input.action # Null THEN input.action ELSE @,
                !.currentInput = EmptyInput]

\* processInput that does not reset the stored input.
ProcessInputKeeps(player, ml) ==
    LET input == player.currentInput
        newPosition == CandidatePosition(player)
    IN  [player EXCEPT
            !.position = IF ~ProbeBlocked(ml, newPosition) THEN newPosition ELSE @,
            !.direction = IF input.direction # Null THEN input.direction ELSE @,
            !.action = IF input.action # Null THEN input.action ELSE @]

\* A variant of processInput that moves along x alone when the whole move
\* is blocked
ProcessInputSliding(player, ml) ==
    LET input == player.currentInput
        newPosition == CandidatePosition(player)
        xOnly == [player.position EXCEPT !.x = newPosition.x]
    IN  [player EXCEPT
            !.position = IF ~ProbeBlocked(ml, newPosition) THEN newPosition
                         ELSE IF ~ProbeBlocked(ml, xOnly) THEN xOnly
                         ELSE @,
            !.direction = IF input.direction # Null THEN input.direction ELSE @,
            !.action = IF input.action # Null THEN input.action ELSE @,
            !.currentInput = EmptyInput]

ProcessInput(player, ml) ==
    LET input == player.currentInput
        newPosition == CandidatePosition(player)
    IN  [player EXCEPT
            !.position = IF ~ProbeBlocked(ml, newPosition) THEN newPosition ELSE @,
            !.direction = IF input.direction # Null THEN input.direction ELSE @,
            !.action = IF input.action # Null THEN input.action ELSE @,
            !.currentInput = EmptyInput]

\* gainExp that levels up only above the threshold
GainExpLate(player, amount) ==
    LET exp1 == player.exp + amount
    IN  IF exp1 > player.level * 100
        THEN [player |-> [player EXCEPT !.exp = exp1 - player.level * 100,
                                        !.level = player.level + 1],
              leveledUp |-> TRUE]
        ELSE [player |-> [player EXCEPT !.exp = exp1], leveledUp |-> FALSE]

\* A variant of gainExp that counts the amount twice
GainExpDouble(player, amount) ==
    LET exp1 == player.exp + 2 * amount
    IN  IF exp1 >= player.level * 100
        THEN [player |-> [player EXCEPT !.exp = exp1 - player.level * 100,
                                        !.level = player.level + 1],
              leveledUp |-> TRUE]
        ELSE [player |-> [player EXCEPT !.exp = exp1], leveledUp |-> FALSE]

\* gainExp: the player after the call and the value returned.
GainExp(player, amount) ==
    LET exp1 == player.exp + amount
    IN  IF exp1 >= player.level * 100
        THEN [player |-> [player EXCEPT !.exp = exp1 - player.level * 100,
                                        !.level = player.level + 1],
              leveledUp |-> TRUE]
        ELSE [player |-> [player EXCEPT !.exp = exp1], leveledUp |-> FALSE]

-----------------------------------------------------------------------------
(* Enemy.ts *)

SUB == 20                  \* enemy coordinates are in 1/SUB pixel
ENEMY_HEALTH == 30
HOP_DISTANCE == 10
LONG_JUMP_DISTANCE == 60
PAUSE_DURATION == 1000
MOVE_DURATION == 1000
LONG_JUMP_DURATION == 600
DETECTION_RADIUS == 50
BOUNDARY_X == 800
BOUNDARY_Y == 600

actionCycle == <<"hop", "idle", "longJump", "idle", "idle">>

Zero == [x |-> 0, y |-> 0]

\* constructor; pos is the value of {Math.random() * 800, Math.random() * 600}
\* in pixels, id the value of uuidv4()
NewEnemy(id, pos) ==
    [key |-> id,
     id |-> id,
     position |-> [x |-> pos.x * SUB, y |-> pos.y * SUB],
     health |-> ENEMY_HEALTH,
     alive |-> TRUE,
     velocity |-> Zero,
     direction |-> "down",
     action |-> "idle",
     targetPlayerId |-> Null,
     currentActionIndex |-> 0,
     actionTimer |-> 0]

\* The square of getDistance between an enemy position (1/SUB pixel) and a
\* player position (pixel), in (1/SUB pixel)^2.  Math.sqrt is monotone, so
\* the code's comparisons of distances are comparisons of these squares.
DistanceSq(enemyPos, playerPos) ==
    LET dx == enemyPos.x - playerPos.x * SUB
        dy == enemyPos.y - playerPos.y * SUB
    IN  dx * dx + dy * dy

RadiusSq(r) == (r * SUB) * (r * SUB)

\* The largest r in lo..hi with r * r <= n
RECURSIVE ISqrtBetween(_, _, _)
ISqrtBetween(n, lo, hi) ==
    IF lo >= hi THEN lo
    ELSE LET mid == (lo + hi + 1) \div 2
         IN  IF mid * mid <= n THEN ISqrtBetween(n, mid, hi)
             ELSE ISqrtBetween(n, lo, mid - 1)

Sign(n) == IF n > 0 THEN 1 ELSE IF n < 0 THEN -1 ELSE 0

\* (Math.cos(angle) * speed, Math.sin(angle) * speed) with
\* angle = Math.atan2(dy, dx).  Exact when the target is on one of the
\* enemy's axes (atan2(0, 0) is 0); rounded towards zero to a whole pixel
\* per second otherwise.
VelocityTowards(dx, dy, speed) ==
    IF dy = 0 THEN [x |-> IF dx < 0 THEN -speed ELSE speed, y |-> 0]
    ELSE IF dx = 0 THEN [x |-> 0, y |-> Sign(dy) * speed]
    ELSE LET dist == ISqrtBetween(dx * dx + dy * dy, 0, Abs(dx) + Abs(dy))
         IN  [x |-> Sign(dx) * ((speed * Abs(dx)) \div dist),
              y |-> Sign(dy) * ((speed * Abs(dy)) \div dist)]

\* A variant of setMovement that enters the movement, at rest, when there
\* is no target to move to
SetMovementAtRest(e, movementType, ps) ==
    LET t == IF e.targetPlayerId = Null THEN 0
             ELSE SeqIndexOf(ps, e.targetPlayerId, 1)
        duration == IF movementType = "hop" THEN MOVE_DURATION
                    ELSE LONG_JUMP_DURATION
    IN  IF t = 0
        THEN [e EXCEPT !.velocity = Zero, !.actionTimer = duration,
                       !.action = movementType]
        ELSE LET dx == ps[t].position.x * SUB - e.position.x
                 dy == ps[t].position.y * SUB - e.position.y
                 distance == IF movementType = "hop" THEN HOP_DISTANCE
                             ELSE LONG_JUMP_DISTANCE
                 speed == (distance * 1000) \div duration
             IN  [e EXCEPT
                    !.direction =
                       IF Abs(dx) > Abs(dy)
                       THEN (IF dx > 0 THEN "right" ELSE "left")
                       ELSE (IF dy > 0 THEN "down" ELSE "up"),
                    !.velocity = VelocityTowards(dx, dy, speed),
                    !.actionTimer = duration,
                    !.action = movementType]

\* setMovement; ps is the players dictionary of server.ts
SetMovement(e, movementType, ps) ==
    IF e.targetPlayerId = Null THEN e
    ELSE LET t == SeqIndexOf(ps, e.targetPlayerId, 1)
         IN  IF t = 0 THEN e
             ELSE LET dx == ps[t].position.x * SUB - e.position.x
                      dy == ps[t].position.y * SUB - e.position.y
                      distance == IF movementType = "hop" THEN HOP_DISTANCE
                                  ELSE LONG_JUMP_DISTANCE
                      duration == IF movementType = "hop" THEN MOVE_DURATION
                                  ELSE LONG_JUMP_DURATION
                      speed == (distance * 1000) \div duration
                  IN  [e EXCEPT
                         !.direction =
                            IF Abs(dx) > Abs(dy)
                            THEN (IF dx > 0 THEN "right" ELSE "left")
                            ELSE (IF dy > 0 THEN "down" ELSE "up"),
                         !.velocity = VelocityTowards(dx, dy, speed),
                         !.actionTimer = duration,
                         !.action = movementType]

\* executeAction
ExecuteAction(e, action, ps) ==
    CASE action = "hop" -> SetMovement(e, "hop", ps)
      [] action = "longJump" -> SetMovement(e, "longJump", ps)
      [] action = "idle" ->
            [e EXCEPT !.velocity = Zero, !.action = "idle",
                      !.actionTimer = PAUSE_DURATION]
      [] OTHER -> [e EXCEPT !.velocity = Zero, !.action = "idle"]

\* executeNextAction
ExecuteNextAction(e, ps) ==
    LET i == (e.currentActionIndex + 1) % Len(actionCycle)
    IN  ExecuteAction([e EXCEPT !.currentActionIndex = i], actionCycle[i + 1], ps)

Clamp(lo, hi, v) == IF v < lo THEN lo ELSE IF v > hi THEN hi ELSE v

\* move that does not clamp the position.
EnemyMoveUnclamped(e, deltaTime, ps) ==
    IF ~e.alive THEN e
    ELSE LET x1 == e.position.x + (e.velocity.x * deltaTime * SUB) \div 1000
             y1 == e.position.y + (e.velocity.y * deltaTime * SUB) \div 1000
             e1 == [e EXCEPT
                      !.position = [x |-> x1, y |-> y1],
                      !.actionTimer = @ - deltaTime]
         IN  IF e1.actionTimer <= 0
             THEN LET i == (e1.currentActionIndex + 1) % Len(actionCycle)
                  IN  ExecuteAction([e1 EXCEPT !.currentActionIndex = i],
                                    actionCycle[i + 1], ps)
             ELSE e1

\* move that goes to the next action only once the timer is below zero.
EnemyMoveLate(e, deltaTime, ps) ==
    IF ~e.alive THEN e
    ELSE LET x1 == e.position.x + (e.velocity.x * deltaTime * SUB) \div 1000
             y1 == e.position.y + (e.velocity.y * deltaTime * SUB) \div 1000
             e1 == [e EXCEPT
                      !.position = [x |-> Clamp(0, BOUNDARY_X * SUB, x1),
                                    y |-> Clamp(0, BOUNDARY_Y * SUB, y1)],
                      !.actionTimer = @ - deltaTime]
         IN  IF e1.actionTimer < 0
             THEN LET i == (e1.currentActionIndex + 1) % Len(actionCycle)
                  IN  ExecuteAction([e1 EXCEPT !.currentActionIndex = i],
                                    actionCycle[i + 1], ps)
             ELSE e1

\* move
EnemyMove(e, deltaTime, ps) ==
    IF ~e.alive THEN e
    ELSE LET x1 == e.position.x + (e.velocity.x * deltaTime * SUB) \div 1000
             y1 == e.position.y + (e.velocity.y * deltaTime * SUB) \div 1000
             e1 == [e EXCEPT
                      !.position = [x |-> Clamp(0, BOUNDARY_X * SUB, x1),
                                    y |-> Clamp(0, BOUNDARY_Y * SUB, y1)],
                      !.actionTimer = @ - deltaTime]
         IN  IF e1.actionTimer <= 0
             THEN LET i == (e1.currentActionIndex + 1) % Len(actionCycle)
                  IN  ExecuteAction([e1 EXCEPT !.currentActionIndex = i],
                                    actionCycle[i + 1], ps)
             ELSE e1

\* A variant of takeDamage that lets an enemy without health live on
TakeDamageSurvives(e, amount) ==
    [enemy |-> [e EXCEPT !.health = @ - amount, !.velocity = Zero,
                         !.action = "confused", !.actionTimer = PAUSE_DURATION],
     isDead |-> FALSE]

\* A variant of takeDamage that lets an enemy die with 10 health left
TakeDamageEarly(e, amount) ==
    LET e1 == [e EXCEPT !.health = @ - amount]
    IN  IF e1.health <= 10
        THEN [enemy |-> [e1 EXCEPT !.alive = FALSE], isDead |-> TRUE]
        ELSE [enemy |-> [e1 EXCEPT !.velocity = Zero, !.action = "confused",
                                   !.actionTimer = PAUSE_DURATION],
              isDead |-> FALSE]

\* A variant of takeDamage that also takes the enemy back to the start of
\* its cycle
TakeDamageResets(e, amount) ==
    LET e1 == [e EXCEPT !.health = @ - amount]
    IN  IF e1.health <= 0
        THEN [enemy |-> [e1 EXCEPT !.alive = FALSE], isDead |-> TRUE]
        ELSE [enemy |-> [e1 EXCEPT !.velocity = Zero, !.action = "confused",
                                   !.actionTimer = PAUSE_DURATION,
                                   !.currentActionIndex = 0],
              isDead |-> FALSE]

\* takeDamage: the enemy after the call and the value returned.
TakeDamage(e, amount) ==
    LET e1 == [e EXCEPT !.health = @ - amount]
    IN  IF e1.health <= 0
        THEN [enemy |-> [e1 EXCEPT !.alive = FALSE], isDead |-> TRUE]
        ELSE [enemy |-> [e1 EXCEPT !.velocity = Zero, !.action = "confused",
                                   !.actionTimer = PAUSE_DURATION],
              isDead |-> FALSE]

\* The loop of findTarget from player i on: closest is closestPlayerId,
\* minSq the square of minDistance (Infinity when closest is Null).
RECURSIVE ClosestPlayerFrom(_, _, _, _, _)
ClosestPlayerFrom(e, ps, i, closest, minSq) ==
    IF i > Len(ps) THEN closest
    ELSE LET d == DistanceSq(e.position, ps[i].position)
         IN  IF (closest = Null \/ d < minSq) /\ d <= RadiusSq(DETECTION_RADIUS)
             THEN ClosestPlayerFrom(e, ps, i + 1, ps[i].key, d)
             ELSE ClosestPlayerFrom(e, ps, i + 1, closest, minSq)

\* Whether players[this.targetPlayerId]?.isAlive is truthy.
TargetAlive(e, ps) ==
    /\ e.targetPlayerId # Null
    /\ SeqIndexOf(ps, e.targetPlayerId, 1) # 0
    /\ ps[SeqIndexOf(ps, e.targetPlayerId, 1)].isAlive

\* findTarget that goes on in the cycle where the enemy was.
FindTargetResume(e, ps) ==
    IF TargetAlive(e, ps) THEN e
    ELSE LET closestPlayerId == ClosestPlayerFrom(e, ps, 1, Null, 0)
         IN  IF closestPlayerId # Null
             THEN ExecuteNextAction(
                      [e EXCEPT !.targetPlayerId = closestPlayerId], ps)
             ELSE e

\* findTarget
FindTarget(e, ps) ==
    IF TargetAlive(e, ps) THEN e
    ELSE LET closestPlayerId == ClosestPlayerFrom(e, ps, 1, Null, 0)
         IN  IF closestPlayerId # Null
             THEN ExecuteNextAction(
                      [e EXCEPT !.targetPlayerId = closestPlayerId,
                                !.currentActionIndex = -1], ps)
             ELSE e

\* performAction that drops a target that has gone without stopping the enemy.
PerformActionDrops(e, ps) ==
    IF e.targetPlayerId = Null THEN e
    ELSE IF ~TargetAlive(e, ps)
         THEN [e EXCEPT !.targetPlayerId = Null]
         ELSE e

\* performAction that leaves the enemy as it is.
PerformActionKeeps(e, ps) == e

\* performAction
PerformAction(e, ps) ==
    IF e.targetPlayerId = Null THEN e
    ELSE IF ~TargetAlive(e, ps)
         THEN [e EXCEPT !.targetPlayerId = Null, !.action = "idle",
                        !.velocity = Zero]
         ELSE e

-----------------------------------------------------------------------------
(* server.ts: the dictionaries *)

MAX_ENEMIES == 5
ATTACK_RADIUS == 50
ATTACK_DAMAGE == 10
KILL_EXP == 50
TICK_INTERVAL == 1000 \div TICK_RATE

Has(dict, key) == SeqIndexOf(dict, key, 1) # 0

Get(dict, key) == dict[SeqIndexOf(dict, key, 1)]

\* dict[key] = value: an existing key keeps its place, a new one goes last.
Put(dict, key, value) ==
    IF Has(dict, key) THEN [dict EXCEPT ![SeqIndexOf(dict, key, 1)] = value]
    ELSE Append(dict, value)

\* delete dict[key]
Delete(dict, key) ==
    IF Has(dict, key) THEN SeqRemoveAt(dict, SeqIndexOf(dict, key, 1)) ELSE dict

Keys(dict) == {dict[i].key : i \in DOMAIN dict}

-----------------------------------------------------------------------------
(* server.ts: getGameState *)

PlayerDataOf(player) ==
    [key |-> player.key,
     playerId |-> player.playerId,
     position |-> player.position,
     level |-> player.level,
     exp |-> player.exp,
     direction |-> player.direction,
     action |-> player.action,
     health |-> player.health,
     socketId |-> player.socketId]

EnemyDataOf(enemy) ==
    [key |-> enemy.id,
     id |-> enemy.id,
     position |-> enemy.position,
     health |-> enemy.health,
     direction |-> enemy.direction,
     action |-> enemy.action]

\* The enemies with alive set, as EnemyData, in the order of the dictionary.
AliveEnemyData(es) ==
    LET alive == SelectSeq(es, LAMBDA e : e.alive)
    IN  [i \in DOMAIN alive |-> EnemyDataOf(alive[i])]

\* A variant of getGameState that reports every enemy at full health
GetGameStateFullHealth(ps, es) ==
    [players |-> [i \in DOMAIN ps |-> PlayerDataOf(ps[i])],
     enemies |-> [i \in DOMAIN AliveEnemyData(es) |->
                    [AliveEnemyData(es)[i] EXCEPT !.health = ENEMY_HEALTH]]]

GetGameState(ps, es) ==
    [players |-> [i \in DOMAIN ps |-> PlayerDataOf(ps[i])],
     enemies |-> AliveEnemyData(es)]

-----------------------------------------------------------------------------
(* server.ts: handleAttack and updateGameState.  st is the part of the     *)
(* state a tick works on: [players, enemies, saves, trace].                *)

\* A variant of the loop of handleAttack that takes the first alive enemy
\* within the radius, not the nearest
ClosestEnemyFirst(es, pos, i, closest, minSq) ==
    LET within == {j \in i..Len(es) :
                    /\ es[j].alive
                    /\ DistanceSq(es[j].position, pos) < RadiusSq(ATTACK_RADIUS)}
    IN  IF within = {} THEN closest
        ELSE CHOOSE j \in within : \A m \in within : j <= m

\* The loop of handleAttack from enemy i on: closest is the index of
\* closestEnemy (0 for null), minSq the square of minDistance.
RECURSIVE ClosestEnemyFrom(_, _, _, _, _)
ClosestEnemyFrom(es, pos, i, closest, minSq) ==
    IF i > Len(es) THEN closest
    ELSE IF ~es[i].alive THEN ClosestEnemyFrom(es, pos, i + 1, closest, minSq)
    ELSE LET d == DistanceSq(es[i].position, pos)
         IN  IF (closest = 0 \/ d < minSq) /\ d < RadiusSq(ATTACK_RADIUS)
             THEN ClosestEnemyFrom(es, pos, i + 1, i, d)
             ELSE ClosestEnemyFrom(es, pos, i + 1, closest, minSq)

HandleAttack(st, playerId) ==
    IF ~Has(st.players, playerId) THEN st
    ELSE
    LET p == SeqIndexOf(st.players, playerId, 1)
        c == ClosestEnemyFrom(st.enemies, st.players[p].position, 1, 0, 0)
    IN  IF c = 0
        THEN [st EXCEPT !.trace = Append(@,
                [ev |-> "handleAttack", player |-> playerId, enemy |-> 0,
                 isDead |-> FALSE, health |-> 0, alive |-> FALSE])]
        ELSE
        LET hit == TakeDamage(st.enemies[c], ATTACK_DAMAGE)
            called == [ev |-> "handleAttack", player |-> playerId,
                       enemy |-> st.enemies[c].id, isDead |-> hit.isDead,
                       health |-> hit.enemy.health, alive |-> hit.enemy.alive]
        IN  IF ~hit.isDead
            THEN [st EXCEPT !.enemies[c] = hit.enemy,
                            !.trace = Append(@, called)]
            ELSE
            LET gain == GainExp(st.players[p], KILL_EXP)
                socketId == playerIdToSocketId[playerId]
                levelUp == IF gain.leveledUp /\ socketId # Null
                           THEN <<[ev |-> "emit", name |-> "levelUp",
                                   to |-> socketId,
                                   payload |-> gain.player.level]>>
                           ELSE <<>>
                save == [playerId |-> playerId, exp |-> gain.player.exp,
                         level |-> gain.player.level]
            IN  [st EXCEPT
                    !.players[p] = gain.player,
                    !.enemies = SeqRemoveAt(@, c),
                    !.saves = @ \cup {save},
                    !.trace = (Append(@, called) \o levelUp)
                                \o <<[ev |-> "updateOne", save |-> save]>>]

\* The first loop of updateGameState, from the i-th of the keys that
\* for..in enumerates.
RECURSIVE PlayersLoop(_, _, _)
PlayersLoop(st, keys, i) ==
    IF i > Len(keys) THEN st
    ELSE LET playerId == keys[i]
             st1 == IF IsAttacking(Get(st.players, playerId))
                    THEN HandleAttack(st, playerId) ELSE st
             p == SeqIndexOf(st1.players, playerId, 1)
             st2 == [st1 EXCEPT
                        !.players[p] = ProcessInput(@, mapLoader),
                        !.trace = Append(@,
                            [ev |-> "processInput", player |-> playerId,
                             before |-> st1.players[p].position,
                             input |-> st1.players[p].currentInput])]
         IN  PlayersLoop(st2, keys, i + 1)

\* The second loop of updateGameState, from the i-th of Object.values(enemies).
RECURSIVE EnemiesLoop(_, _, _)
EnemiesLoop(st, deltaTime, i) ==
    IF i > Len(st.enemies) THEN st
    ELSE IF ~st.enemies[i].alive THEN EnemiesLoop(st, deltaTime, i + 1)
    ELSE LET e1 == FindTarget(st.enemies[i], st.players)
             e2 == PerformAction(e1, st.players)
             e3 == EnemyMove(e2, deltaTime, st.players)
             id == st.enemies[i].id
             st1 == [st EXCEPT
                       !.enemies[i] = e3,
                       !.trace = @ \o
                          <<[ev |-> "findTarget", enemy |-> id,
                             position |-> st.enemies[i].position,
                             valid |-> TargetAlive(st.enemies[i], st.players),
                             target |-> e1.targetPlayerId],
                            [ev |-> "performAction", enemy |-> id],
                            [ev |-> "move", enemy |-> id,
                             deltaTime |-> deltaTime,
                             target |-> e2.targetPlayerId,
                             index |-> e2.currentActionIndex,
                             timer |-> e2.actionTimer]>>]
         IN  EnemiesLoop(st1, deltaTime, i + 1)

\* updateGameState with the enemy loop before the player loop.
UpdateGameStateEnemiesFirst(st, deltaTime) ==
    LET keys == [i \in DOMAIN st.players |-> st.players[i].key]
    IN  PlayersLoop(EnemiesLoop(st, deltaTime, 1), keys, 1)

UpdateGameState(st, deltaTime) ==
    LET keys == [i \in DOMAIN st.players |-> st.players[i].key]
    IN  EnemiesLoop(PlayersLoop(st, keys, 1), deltaTime, 1)

\* spawnEnemies with the loop bound i <= enemiesToSpawn.
EnemiesToSpawnOneMore(es) ==
    LET aliveEnemies == SelectSeq(es, LAMBDA e : e.alive)
        n == MAX_ENEMIES - Len(aliveEnemies)
    IN  IF n >= 0 THEN n + 1 ELSE 0

\* spawnEnemies: how many enemies it creates.
EnemiesToSpawn(es) ==
    LET aliveEnemies == SelectSeq(es, LAMBDA e : e.alive)
        n == MAX_ENEMIES - Len(aliveEnemies)
    IN  IF n > 0 THEN n ELSE 0

\* spawnEnemies, the i-th new enemy at pos[i] with id firstId + i - 1.
SpawnEnemies(es, firstId, pos) ==
    es \o [i \in 1..EnemiesToSpawn(es) |-> NewEnemy(firstId + i - 1, pos[i])]

-----------------------------------------------------------------------------
(* Bounds and inputs of the model *)

PlayerIds == {"p1", "p2"}
SocketIds == {"s1", "s2"}

MaxKills == 1             \* enemies killed, so MAX_ENEMIES + MaxKills spawned
MaxTicks == 3             \* runs of gameLoop once the game is under way
MaxJoinTicks == 1         \* runs of gameLoop while the sockets join
MaxCombatTicks == 2       \* runs of gameLoop in SpecCombat
MapWidth == 3             \* tiles of the small map
MapHeight == 3
MaxLevel == 4             \* levels gainExp is called at

MaxEnemyId == MAX_ENEMIES + MaxKills

\* A Tiled map of width x height tiles with one tile layer and one object
\* layer; tile 1 is floor and tile 2, flagged collideable, is wall.
TiledMap(width, height, walls) ==
    [layers |->
        <<[type |-> TILE_LAYER, width |-> width, height |-> height,
           data |-> [i \in 1..(width * height) |->
                        IF <<(i - 1) % width, (i - 1) \div width>> \in walls
                        THEN 2 ELSE 1]],
          [type |-> "objectgroup", width |-> 0, height |-> 0, data |-> <<>>]>>,
     tilesets |->
        <<[firstgid |-> 1,
           tiles |-> <<[id |-> 0, collideable |-> FALSE],
                       [id |-> 1, collideable |-> TRUE]>>]>>]

\* The level of the server: 20 x 15 tiles, all wall but the two tiles the
\* default position (300, 200) and its collision probe are on.
LevelWall == ((0..19) \X (0..14)) \ {<<18, 12>>, <<18, 13>>}
LevelMap == TiledMap(20, 15, LevelWall)

\* A small map, all floor but one wall tile in the top row.
SmallWall == {<<1, 0>>}
SmallMap == TiledMap(MapWidth, MapHeight, SmallWall)
SmallMapStart == [x |-> 24, y |-> 24]

\* The place a new player is put at (server.ts, newPlayerData)
DefaultPosition == [x |-> 300, y |-> 200]

NewPlayerData(playerId, socketId) ==
    [playerId |-> playerId,
     position |-> DefaultPosition,
     level |-> 1,
     exp |-> 0,
     health |-> 100,
     socketId |-> socketId,
     direction |-> "right",
     action |-> "idle"]

\* Values of {Math.random() * 800, Math.random() * 600}, in pixels
SpawnPoints == {[x |-> 300, y |-> 230]}

\* Values of now - lastUpdateTime, in milliseconds: the nominal interval,
\* and a tick that comes late
SlowTick == TICK_INTERVAL * 10
DeltaTimes == {SlowTick}

\* playerInput messages
Input(flags, direction, action) ==
    [left |-> "left" \in flags, right |-> "right" \in flags,
     up |-> "up" \in flags, down |-> "down" \in flags,
     direction |-> direction, action |-> action]

ServerInputs ==
    {Input({}, Null, "attack"),
     Input({"up"}, Null, Null)}

PlayerInputs ==
    {Input(flags, Null, Null) : flags \in SUBSET {"left", "right", "up", "down"}}
    \cup {Input({}, Null, "attack"), Input({"left"}, "left", "walk")}

\* Arguments of gainExp
ExpAmounts == {0, 30, 50, 150, 300}

\* Places of the players around the spawn point, in pixels
PlayerSpots ==
    {[x |-> 300, y |-> 200], [x |-> 300, y |-> 260],
     [x |-> 300, y |-> 190], [x |-> 300, y |-> 290]}

-----------------------------------------------------------------------------
(* server.ts: the handlers *)

NoSocket == [s \in SocketIds |-> Null]
NoPlayer == [p \in PlayerIds |-> Null]

Emit(name, to, payload) ==
    [ev |-> "emit", name |-> name, to |-> to, payload |-> payload]

\* MongoClient.connect(...).then: db is set and the first enemies spawned.
DbConnected ==
    /\ running
    /\ db.state = "connecting"
    /\ \E pos \in [1..EnemiesToSpawn(enemies) -> SpawnPoints] :
        /\ nextEnemyId + EnemiesToSpawn(enemies) - 1 <= MaxEnemyId
        /\ enemies' = SpawnEnemies(enemies, nextEnemyId, pos)
        /\ nextEnemyId' = nextEnemyId + EnemiesToSpawn(enemies)
        /\ trace' = <<[ev |-> "connected"]>> \o
                    [i \in 1..EnemiesToSpawn(enemies) |->
                        [ev |-> "spawn", enemy |-> nextEnemyId + i - 1]]
    /\ db' = [db EXCEPT !.state = "connected"]
    /\ UNCHANGED <<mapLoader, players, socketIdToPlayerId, playerIdToSocketId,
                   sockets, inits, saves, lastUpdateTime, running>>

\* MongoClient.connect(...).catch: db stays undefined.
DbFailed ==
    /\ running
    /\ db.state = "connecting"
    /\ db' = [db EXCEPT !.state = "failed"]
    /\ trace' = <<[ev |-> "connectFailed"]>>
    /\ UNCHANGED <<mapLoader, players, enemies, socketIdToPlayerId,
                   playerIdToSocketId, sockets, inits, saves, nextEnemyId,
                   lastUpdateTime, running>>

\* io.on("connection")
Connect(s) ==
    /\ running
    /\ sockets[s].status = "new"
    /\ sockets' = [sockets EXCEPT ![s].status = "connected"]
    /\ trace' = <<[ev |-> "connection", socket |-> s]>>
    /\ UNCHANGED <<mapLoader, players, enemies, socketIdToPlayerId,
                   playerIdToSocketId, db, inits, saves, nextEnemyId,
                   lastUpdateTime, running>>

\* socket.on("init") up to its first await.  The client sends "init" once
\* per connection (MainScene.ts).  With db undefined the handler throws at
\* db.collection: its promise is rejected and never handled, which node
\* either only reports or ends the process on.
InitStart(s, playerId) ==
    /\ running
    /\ sockets[s].status = "connected"
    /\ ~sockets[s].initSent
    /\ sockets' = [sockets EXCEPT ![s].initSent = TRUE]
    /\ socketIdToPlayerId' = [socketIdToPlayerId EXCEPT ![s] = playerId]
    /\ playerIdToSocketId' = [playerIdToSocketId EXCEPT ![playerId] = s]
    /\ IF db.state = "connected"
       THEN /\ inits' = inits \cup
                   {[socket |-> s, playerId |-> playerId, pc |-> "findOne",
                     playerDocument |-> Null]}
            /\ running' = TRUE
            /\ trace' = <<[ev |-> "init", socket |-> s, playerId |-> playerId,
                           threw |-> FALSE]>>
       ELSE /\ inits' = inits
            /\ running' \in BOOLEAN
            /\ trace' = <<[ev |-> "init", socket |-> s, playerId |-> playerId,
                           threw |-> TRUE]>>
    /\ UNCHANGED <<mapLoader, players, enemies, db, saves, nextEnemyId,
                   lastUpdateTime>>

\* The first document of the players collection that matches {playerId}
DocIndex(docs, playerId) == SeqIndexOf(docs, playerId, 1)

\* "init": findOne has answered; the handler goes on to insertOne or updateOne.
InitFindOne(h) ==
    /\ running
    /\ h \in inits
    /\ h.pc = "findOne"
    /\ LET i == DocIndex(db.docs, h.playerId)
       IN  inits' = (inits \ {h}) \cup
             {IF i = 0 THEN [h EXCEPT !.pc = "insertOne"]
              ELSE [h EXCEPT !.pc = "updateOne", !.playerDocument = db.docs[i]]}
    /\ trace' = <<[ev |-> "findOne", socket |-> h.socket]>>
    /\ UNCHANGED <<mapLoader, players, enemies, socketIdToPlayerId,
                   playerIdToSocketId, sockets, db, saves, nextEnemyId,
                   lastUpdateTime, running>>

\* "init": insertOne or updateOne has answered; the rest of the handler runs.
InitFinish(h) ==
    /\ running
    /\ h \in inits
    /\ h.pc \in {"insertOne", "updateOne"}
    /\ LET newPlayerData == NewPlayerData(h.playerId, h.socket)
           playerData == IF h.pc = "insertOne" THEN newPlayerData
                         ELSE [f \in DOMAIN newPlayerData |-> h.playerDocument[f]]
           i == DocIndex(db.docs, h.playerId)
           player == [NewPlayer(playerData) EXCEPT !.initSocket = h.socket]
       IN  /\ db' = IF h.pc = "insertOne"
                    THEN [db EXCEPT !.docs = Append(@,
                            [key |-> h.playerId] @@ newPlayerData)]
                    ELSE IF i = 0 THEN db
                    ELSE [db EXCEPT !.docs[i].socketId = h.socket]
           /\ players' = Put(players, h.playerId, player)
           /\ trace' =
                <<[ev |-> "initDone", socket |-> h.socket,
                   playerId |-> h.playerId],
                  Emit("init", h.socket,
                       [playerData |-> playerData, players |-> players',
                        enemies |-> AliveEnemyData(enemies)]),
                  Emit("playerJoined", "others", playerData)>>
    /\ inits' = inits \ {h}
    /\ UNCHANGED <<mapLoader, enemies, socketIdToPlayerId, playerIdToSocketId,
                   sockets, saves, nextEnemyId, lastUpdateTime, running>>

\* The "playerInput" handler without its test of playerId and
\* players[playerId]: setInput on undefined throws.
PlayerInputUnguarded(s, input) ==
    /\ running
    /\ sockets[s].status = "connected"
    /\ LET playerId == socketIdToPlayerId[s]
       IN  IF playerId # Null /\ Has(players, playerId)
           THEN /\ players' = Put(players, playerId,
                                  SetInput(Get(players, playerId), input))
                /\ running' = running
           ELSE /\ players' = players
                /\ running' = FALSE
    /\ trace' = <<>>
    /\ UNCHANGED <<mapLoader, enemies, socketIdToPlayerId, playerIdToSocketId,
                   sockets, db, inits, saves, nextEnemyId, lastUpdateTime>>

\* socket.on("playerInput")
PlayerInput(s, input) ==
    /\ running
    /\ sockets[s].status = "connected"
    /\ LET playerId == socketIdToPlayerId[s]
       IN  players' = IF playerId # Null /\ Has(players, playerId)
                      THEN Put(players, playerId,
                               SetInput(Get(players, playerId), input))
                      ELSE players
    /\ trace' = <<>>
    /\ UNCHANGED <<mapLoader, enemies, socketIdToPlayerId, playerIdToSocketId,
                   sockets, db, inits, saves, nextEnemyId, lastUpdateTime,
                   running>>

\* socket.on("disconnect")
Disconnect(s) ==
    /\ running
    /\ sockets[s].status = "connected"
    /\ sockets' = [sockets EXCEPT ![s].status = "disconnected"]
    /\ LET playerId == socketIdToPlayerId[s]
       IN  IF playerId # Null
           THEN /\ players' = Delete(players, playerId)
                /\ socketIdToPlayerId' = [socketIdToPlayerId EXCEPT ![s] = Null]
                /\ playerIdToSocketId' =
                        [playerIdToSocketId EXCEPT ![playerId] = Null]
                /\ trace' = <<[ev |-> "disconnect", socket |-> s],
                              Emit("playerLeft", "others", playerId)>>
           ELSE /\ UNCHANGED <<players, socketIdToPlayerId, playerIdToSocketId>>
                /\ trace' = <<[ev |-> "disconnect", socket |-> s]>>
    /\ UNCHANGED <<mapLoader, enemies, db, inits, saves, nextEnemyId,
                   lastUpdateTime, running>>

\* The updateOne of handleAttack reaches the collection.
SaveDone(save) ==
    /\ running
    /\ save \in saves
    /\ saves' = saves \ {save}
    /\ LET i == DocIndex(db.docs, save.playerId)
       IN  db' = IF i = 0 THEN db
                 ELSE [db EXCEPT !.docs[i].exp = save.exp,
                                 !.docs[i].level = save.level]
    /\ trace' = <<[ev |-> "saved", save |-> save]>>
    /\ UNCHANGED <<mapLoader, players, enemies, socketIdToPlayerId,
                   playerIdToSocketId, sockets, inits, nextEnemyId,
                   lastUpdateTime, running>>

\* gameLoop: updateGameState, the gameState broadcast, spawnEnemies.  The
\* clock reads lastUpdateTime + deltaTime.
GameLoop(deltaTime) ==
    /\ running
    /\ lastUpdateTime' = lastUpdateTime + deltaTime
    /\ LET st == UpdateGameState(
                    [players |-> players, enemies |-> enemies,
                     saves |-> saves, trace |-> <<>>], deltaTime)
           state == GetGameState(st.players, st.enemies)
           n == EnemiesToSpawn(st.enemies)
       IN  \E pos \in [1..n -> SpawnPoints] :
            /\ nextEnemyId + n - 1 <= MaxEnemyId
            /\ players' = st.players
            /\ enemies' = SpawnEnemies(st.enemies, nextEnemyId, pos)
            /\ saves' = st.saves
            /\ nextEnemyId' = nextEnemyId + n
            /\ trace' = (<<[ev |-> "gameLoop", deltaTime |-> deltaTime]>>
                          \o st.trace)
                        \o <<Emit("gameState", "all", state)>>
                        \o [i \in 1..n |->
                              [ev |-> "spawn", enemy |-> nextEnemyId + i - 1]]
    /\ UNCHANGED <<mapLoader, socketIdToPlayerId, playerIdToSocketId, sockets,
                   db, inits, running>>

-----------------------------------------------------------------------------
(* Spec: the server from its start, while the sockets connect, join and    *)
(* leave.  No enemy can be killed within MaxJoinTicks ticks, so no save is *)
(* ever in flight.                                                         *)

Init ==
    /\ mapLoader = NewMapLoader(LevelMap)
    /\ players = <<>>
    /\ enemies = <<>>
    /\ socketIdToPlayerId = NoSocket
    /\ playerIdToSocketId = NoPlayer
    /\ sockets = [s \in SocketIds |-> [status |-> "new", initSent |-> FALSE]]
    /\ db = [state |-> "connecting", docs |-> <<>>]
    /\ inits = {}
    /\ saves = {}
    /\ nextEnemyId = 1
    /\ lastUpdateTime = 0
    /\ running = TRUE
    /\ trace = <<>>

Next ==
    \/ DbConnected
    \/ DbFailed
    \/ \E s \in SocketIds : Connect(s)
    \/ \E s \in SocketIds, playerId \in PlayerIds : InitStart(s, playerId)
    \/ \E h \in inits : InitFindOne(h)
    \/ \E h \in inits : InitFinish(h)
    \/ \E s \in SocketIds, input \in ServerInputs : PlayerInput(s, input)
    \/ \E s \in SocketIds : Disconnect(s)
    \/ \E deltaTime \in DeltaTimes :
            /\ lastUpdateTime + deltaTime <= MaxJoinTicks * SlowTick
            /\ GameLoop(deltaTime)

Spec == Init /\ [][Next]_vars

-----------------------------------------------------------------------------
(* SpecGame: the game under way, from the state of the server once the     *)
(* database is connected, the first enemies are spawned and both sockets   *)
(* have joined, s1 as p1 and s2 as p2.                                     *)

JoinedPlayer(playerId, socketId) ==
    [NewPlayer(NewPlayerData(playerId, socketId)) EXCEPT !.initSocket = socketId]

JoinedDoc(playerId, socketId) ==
    [key |-> playerId] @@ NewPlayerData(playerId, socketId)

InitGame ==
    /\ mapLoader = NewMapLoader(LevelMap)
    /\ players = <<JoinedPlayer("p1", "s1"), JoinedPlayer("p2", "s2")>>
    /\ \E pos \in [1..MAX_ENEMIES -> SpawnPoints] :
            enemies = SpawnEnemies(<<>>, 1, pos)
    /\ socketIdToPlayerId = [NoSocket EXCEPT !["s1"] = "p1", !["s2"] = "p2"]
    /\ playerIdToSocketId = [NoPlayer EXCEPT !["p1"] = "s1", !["p2"] = "s2"]
    /\ sockets = [s \in SocketIds |-> [status |-> "connected", initSent |-> TRUE]]
    /\ db = [state |-> "connected",
             docs |-> <<JoinedDoc("p1", "s1"), JoinedDoc("p2", "s2")>>]
    /\ inits = {}
    /\ saves = {}
    /\ nextEnemyId = MAX_ENEMIES + 1
    /\ lastUpdateTime = 0
    /\ running = TRUE
    /\ trace = <<>>

NextGame ==
    \/ \E s \in SocketIds, input \in ServerInputs : PlayerInput(s, input)
    \/ \E save \in saves : SaveDone(save)
    \/ \E deltaTime \in DeltaTimes :
            /\ lastUpdateTime + deltaTime <= MaxTicks * SlowTick
            /\ GameLoop(deltaTime)

SpecGame == InitGame /\ [][NextGame]_vars

-----------------------------------------------------------------------------
(* SpecPlayer: one Player on a map, its setInput and processInput called   *)
(* in any order with any input.                                            *)

PlayerAt(playerId, socketId, pos) ==
    [JoinedPlayer(playerId, socketId) EXCEPT !.position = pos]

InitPlayer ==
    /\ \E start \in {<<SmallMap, SmallMapStart>>, <<LevelMap, DefaultPosition>>} :
        /\ mapLoader = NewMapLoader(start[1])
        /\ players = <<PlayerAt("p1", "s1", start[2])>>
    /\ enemies = <<>>
    /\ socketIdToPlayerId = [NoSocket EXCEPT !["s1"] = "p1"]
    /\ playerIdToSocketId = [NoPlayer EXCEPT !["p1"] = "s1"]
    /\ sockets = [s \in SocketIds |->
                    IF s = "s1" THEN [status |-> "connected", initSent |-> TRUE]
                    ELSE [status |-> "new", initSent |-> FALSE]]
    /\ db = [state |-> "connected", docs |-> <<JoinedDoc("p1", "s1")>>]
    /\ inits = {}
    /\ saves = {}
    /\ nextEnemyId = 1
    /\ lastUpdateTime = 0
    /\ running = TRUE
    /\ trace = <<>>

\* player.setInput(input)
SetInputCall(input) ==
    /\ players' = [players EXCEPT ![1] = SetInput(@, input)]
    /\ trace' = <<[ev |-> "setInput", player |-> players[1].key,
                   input |-> input]>>
    /\ UNCHANGED <<mapLoader, enemies, socketIdToPlayerId, playerIdToSocketId,
                   sockets, db, inits, saves, nextEnemyId, lastUpdateTime,
                   running>>

\* player.processInput(mapLoader)
ProcessInputCall ==
    /\ players' = [players EXCEPT ![1] = ProcessInput(@, mapLoader)]
    /\ trace' = <<[ev |-> "processInput", player |-> players[1].key,
                   before |-> players[1].position,
                   input |-> players[1].currentInput]>>
    /\ UNCHANGED <<mapLoader, enemies, socketIdToPlayerId, playerIdToSocketId,
                   sockets, db, inits, saves, nextEnemyId, lastUpdateTime,
                   running>>

NextPlayer ==
    \/ \E input \in PlayerInputs : SetInputCall(input)
    \/ ProcessInputCall

SpecPlayer == InitPlayer /\ [][NextPlayer]_vars

-----------------------------------------------------------------------------
(* SpecBuffer: one Player on a map, its setInput called with the messages  *)
(* the client sends (with and without a direction, with every action and   *)
(* with none) and its processInput, in any order.                          *)

BufferInputs ==
    {Input(flags, direction, action) :
        flags \in {{}, {"left"}},
        direction \in {Null, "left"},
        action \in {Null, "idle", "walk", "attack"}}

NextBuffer ==
    \/ \E input \in BufferInputs : SetInputCall(input)
    \/ ProcessInputCall

SpecBuffer == InitPlayer /\ [][NextBuffer]_vars

-----------------------------------------------------------------------------
(* SpecExp: one Player, its gainExp called with any amount.                *)

InitExp ==
    /\ InitPlayer
    /\ mapLoader = NewMapLoader(LevelMap)

\* player.gainExp(amount)
GainExpCall(amount) ==
    /\ players[1].level < MaxLevel
    /\ players' = [players EXCEPT ![1] = GainExp(@, amount).player]
    /\ trace' = <<[ev |-> "gainExp", amount |-> amount,
                   level |-> players[1].level, exp |-> players[1].exp,
                   leveledUp |-> GainExp(players[1], amount).leveledUp]>>
    /\ UNCHANGED <<mapLoader, enemies, socketIdToPlayerId, playerIdToSocketId,
                   sockets, db, inits, saves, nextEnemyId, lastUpdateTime,
                   running>>

NextExp == \E amount \in ExpAmounts : GainExpCall(amount)

SpecExp == InitExp /\ [][NextExp]_vars

-----------------------------------------------------------------------------
(* SpecEnemy: one Enemy, just spawned among players that stand still, and  *)
(* the enemy loop of updateGameState; players leave.                       *)

\* The dictionaries of players standing on PlayerSpots, in every order of
\* insertion
StandingPlayers ==
    {<<>>}
    \cup {<<PlayerAt(p, "s1", pos)>> : p \in PlayerIds, pos \in PlayerSpots}
    \cup {<<PlayerAt(o[1], "s1", pos1), PlayerAt(o[2], "s2", pos2)>> :
            o \in {<<"p1", "p2">>, <<"p2", "p1">>},
            pos1 \in PlayerSpots, pos2 \in PlayerSpots}

InitEnemy ==
    /\ mapLoader = NewMapLoader(LevelMap)
    /\ players \in StandingPlayers
    /\ \E pos \in SpawnPoints : enemies = <<NewEnemy(1, pos)>>
    /\ socketIdToPlayerId = NoSocket
    /\ playerIdToSocketId = NoPlayer
    /\ sockets = [s \in SocketIds |-> [status |-> "connected", initSent |-> TRUE]]
    /\ db = [state |-> "connected", docs |-> <<>>]
    /\ inits = {}
    /\ saves = {}
    /\ nextEnemyId = 2
    /\ lastUpdateTime = 0
    /\ running = TRUE
    /\ trace = <<>>

\* The second loop of updateGameState
EnemiesUpdate(deltaTime) ==
    /\ LET st == EnemiesLoop([players |-> players, enemies |-> enemies,
                              saves |-> saves, trace |-> <<>>], deltaTime, 1)
       IN  /\ enemies' = st.enemies
           /\ trace' = st.trace
    /\ UNCHANGED <<mapLoader, players, socketIdToPlayerId, playerIdToSocketId,
                   sockets, db, inits, saves, nextEnemyId, lastUpdateTime,
                   running>>

\* delete players[playerId], of the disconnect handler
PlayerLeaves(playerId) ==
    /\ Has(players, playerId)
    /\ players' = Delete(players, playerId)
    /\ trace' = <<[ev |-> "left", player |-> playerId]>>
    /\ UNCHANGED <<mapLoader, enemies, socketIdToPlayerId, playerIdToSocketId,
                   sockets, db, inits, saves, nextEnemyId, lastUpdateTime,
                   running>>

NextEnemy ==
    \/ \E deltaTime \in DeltaTimes : EnemiesUpdate(deltaTime)
    \/ \E playerId \in PlayerIds : PlayerLeaves(playerId)

SpecEnemy == InitEnemy /\ [][NextEnemy]_vars

-----------------------------------------------------------------------------
(* SpecDamage: SpecEnemy with the enemy taking damage between the runs of  *)
(* the enemy loop, as handleAttack deals it.                               *)

\* closestEnemy.takeDamage(10) and, if it returns true, delete enemies[id]
TakeDamageCall(i) ==
    /\ i \in DOMAIN enemies
    /\ enemies[i].alive
    /\ LET hit == TakeDamage(enemies[i], ATTACK_DAMAGE)
       IN  /\ enemies' = IF hit.isDead THEN SeqRemoveAt(enemies, i)
                         ELSE [enemies EXCEPT ![i] = hit.enemy]
           /\ trace' = <<[ev |-> "takeDamage", enemy |-> enemies[i].id,
                          isDead |-> hit.isDead, after |-> hit.enemy]>>
    /\ UNCHANGED <<mapLoader, players, socketIdToPlayerId, playerIdToSocketId,
                   sockets, db, inits, saves, nextEnemyId, lastUpdateTime,
                   running>>

NextDamage ==
    \/ \E deltaTime \in DeltaTimes : EnemiesUpdate(deltaTime)
    \/ \E playerId \in PlayerIds : PlayerLeaves(playerId)
    \/ \E i \in DOMAIN enemies : TakeDamageCall(i)

SpecDamage == InitEnemy /\ [][NextDamage]_vars

-----------------------------------------------------------------------------
(* SpecEdge: one Enemy spawned near an edge of its 800 x 600 area, next    *)
(* to a player who stands at the edge of a map of that size, and the       *)
(* enemy loop run with short and long elapsed times.                       *)

EdgeMap == TiledMap(50, 38, {})

\* A player's place and the place an enemy is spawned at: at the top left
\* corner, at the right edge and at the bottom edge.
EdgeLayouts ==
    { <<[x |-> 2, y |-> -16], [x |-> 6, y |-> 7]>>,
      <<[x |-> 798, y |-> 300], [x |-> 771, y |-> 300]>>,
      <<[x |-> 300, y |-> 591], [x |-> 300, y |-> 568]>> }

EdgeDeltaTimes == {SlowTick, 10 * SlowTick}

InitEdge ==
    /\ mapLoader = NewMapLoader(EdgeMap)
    /\ \E layout \in EdgeLayouts :
        /\ players = <<PlayerAt("p1", "s1", layout[1])>>
        /\ enemies = <<NewEnemy(1, layout[2])>>
    /\ socketIdToPlayerId = NoSocket
    /\ playerIdToSocketId = NoPlayer
    /\ sockets = [s \in SocketIds |-> [status |-> "connected", initSent |-> TRUE]]
    /\ db = [state |-> "connected", docs |-> <<>>]
    /\ inits = {}
    /\ saves = {}
    /\ nextEnemyId = 2
    /\ lastUpdateTime = 0
    /\ running = TRUE
    /\ trace = <<>>

NextEdge == \E deltaTime \in EdgeDeltaTimes : EnemiesUpdate(deltaTime)

SpecEdge == InitEdge /\ [][NextEdge]_vars

-----------------------------------------------------------------------------
(* SpecCombat: the game under way with enemies that earlier attacks have   *)
(* left at 10 or 20 health.  p1 has joined on s1 and has killed one enemy  *)
(* before (exp 50); s2 has connected and not yet sent "init", which it     *)
(* sends as p2 or, a second page of the same browser, as p1.               *)

\* An enemy left without target at a place with some health: what
\* performAction and move leave of an enemy whose target has gone
EnemyAt(id, pos, health) == [NewEnemy(id, pos) EXCEPT !.health = health]

\* The enemies around the default position of the players: at distances
\* 30, 40, 45, 60 and 300 of it, or all far from it, or all just spawned
\* at 30 of it
CombatLayouts ==
    {<<EnemyAt(1, [x |-> 300, y |-> 240], 20),
       EnemyAt(2, [x |-> 300, y |-> 230], 10),
       EnemyAt(3, [x |-> 300, y |-> 245], 30),
       EnemyAt(4, [x |-> 300, y |-> 260], 10),
       EnemyAt(5, [x |-> 300, y |-> 500], 30)>>,
     [i \in 1..MAX_ENEMIES |-> EnemyAt(i, [x |-> 600, y |-> 100 * i], 10)],
     [i \in 1..MAX_ENEMIES |-> EnemyAt(i, [x |-> 300, y |-> 230], ENEMY_HEALTH)]}

InitCombat ==
    /\ mapLoader = NewMapLoader(LevelMap)
    /\ players = <<[JoinedPlayer("p1", "s1") EXCEPT !.exp = KILL_EXP]>>
    /\ enemies \in CombatLayouts
    /\ socketIdToPlayerId = [NoSocket EXCEPT !["s1"] = "p1"]
    /\ playerIdToSocketId = [NoPlayer EXCEPT !["p1"] = "s1"]
    /\ sockets = [s \in SocketIds |->
                    [status |-> "connected", initSent |-> s = "s1"]]
    /\ db = [state |-> "connected",
             docs |-> <<[JoinedDoc("p1", "s1") EXCEPT !.exp = KILL_EXP]>>]
    /\ inits = {}
    /\ saves = {}
    /\ nextEnemyId = MAX_ENEMIES + 1
    /\ lastUpdateTime = 0
    /\ running = TRUE
    /\ trace = <<>>

NextCombat ==
    \/ \E s \in SocketIds, playerId \in PlayerIds : InitStart(s, playerId)
    \/ \E h \in inits : InitFindOne(h)
    \/ \E h \in inits : InitFinish(h)
    \/ \E s \in SocketIds, input \in ServerInputs : PlayerInput(s, input)
    \/ \E s \in SocketIds : Disconnect(s)
    \/ \E save \in saves : SaveDone(save)
    \/ \E deltaTime \in DeltaTimes :
            /\ lastUpdateTime + deltaTime <= MaxCombatTicks * SlowTick
            /\ GameLoop(deltaTime)

SpecCombat == InitCombat /\ [][NextCombat]_vars

-----------------------------------------------------------------------------
(* SpecSpawn: the server from its start with one browser, s1 as p1, for    *)
(* long enough that ticks run before and after the database connects and   *)
(* that p1 joins and kills an enemy.                                       *)

MaxSpawnTicks == 4

NextSpawn ==
    \/ DbConnected
    \/ DbFailed
    \/ Connect("s1")
    \/ InitStart("s1", "p1")
    \/ \E h \in inits : InitFindOne(h)
    \/ \E h \in inits : InitFinish(h)
    \/ \E input \in ServerInputs : PlayerInput("s1", input)
    \/ Disconnect("s1")
    \/ \E save \in saves : SaveDone(save)
    \/ \E deltaTime \in DeltaTimes :
            /\ lastUpdateTime + deltaTime <= MaxSpawnTicks * SlowTick
            /\ GameLoop(deltaTime)

SpecSpawn == Init /\ [][NextSpawn]_vars

-----------------------------------------------------------------------------
(* SpecChase: the game under way on an open map at the nominal tick of     *)
(* TICK_INTERVAL ms, with one player, p1 on s1, who walks away from the    *)
(* enemies or leaves.                                                      *)

MaxChaseTicks == 93

OpenMap == TiledMap(20, 15, {})

ChaseInputs == {Input({"up"}, "up", "walk")}

InitChase ==
    /\ mapLoader = NewMapLoader(OpenMap)
    /\ players = <<JoinedPlayer("p1", "s1")>>
    /\ \E pos \in [1..MAX_ENEMIES -> SpawnPoints] :
            enemies = SpawnEnemies(<<>>, 1, pos)
    /\ socketIdToPlayerId = [NoSocket EXCEPT !["s1"] = "p1"]
    /\ playerIdToSocketId = [NoPlayer EXCEPT !["p1"] = "s1"]
    /\ sockets = [s \in SocketIds |->
                    IF s = "s1" THEN [status |-> "connected", initSent |-> TRUE]
                    ELSE [status |-> "new", initSent |-> FALSE]]
    /\ db = [state |-> "connected", docs |-> <<JoinedDoc("p1", "s1")>>]
    /\ inits = {}
    /\ saves = {}
    /\ nextEnemyId = MAX_ENEMIES + 1
    /\ lastUpdateTime = 0
    /\ running = TRUE
    /\ trace = <<>>

NextChase ==
    \/ \E input \in ChaseInputs : PlayerInput("s1", input)
    \/ Disconnect("s1")
    \/ /\ lastUpdateTime + TICK_INTERVAL <= MaxChaseTicks * TICK_INTERVAL
       /\ GameLoop(TICK_INTERVAL)

SpecChase == InitChase /\ [][NextChase]_vars

-----------------------------------------------------------------------------
(* SpecMap: a MapLoader on maps of several shapes, its isTileBlocked       *)
(* called with any tile coordinates in and around the map.                 *)

TileLayer(width, height, walls) ==
    [type |-> TILE_LAYER, width |-> width, height |-> height,
     data |-> [i \in 1..(width * height) |->
                  IF <<(i - 1) % width, (i - 1) \div width>> \in walls
                  THEN 2 ELSE 1]]

ObjectLayer == [type |-> "objectgroup", width |-> 0, height |-> 0, data |-> <<>>]

FloorTileset == [firstgid |-> 1, tiles |-> <<[id |-> 0, collideable |-> FALSE]>>]
WallTileset == [firstgid |-> 2, tiles |-> <<[id |-> 0, collideable |-> TRUE]>>]
BothTileset ==
    [firstgid |-> 1, tiles |-> <<[id |-> 0, collideable |-> FALSE],
                                 [id |-> 1, collideable |-> TRUE]>>]

\* A parsed map file: the map's own size, its layers and its tilesets.
Tilemap(layers, tilesets) ==
    [width |-> MapWidth, height |-> MapHeight, layers |-> layers,
     tilesets |-> tilesets]

\* One tile layer; two tile layers of the map's size with different walls;
\* the wall tile in a second tileset; no tile layer at all; a first tile
\* layer smaller than the map; no tile flagged collideable.
MapShapes ==
    { Tilemap(<<TileLayer(MapWidth, MapHeight, SmallWall), ObjectLayer>>,
              <<BothTileset>>),
      Tilemap(<<TileLayer(MapWidth, MapHeight, {}), ObjectLayer,
                TileLayer(MapWidth, MapHeight, {<<0, 1>>})>>,
              <<BothTileset>>),
      Tilemap(<<TileLayer(MapWidth, MapHeight, SmallWall)>>,
              <<FloorTileset, WallTileset>>),
      Tilemap(<<ObjectLayer>>, <<BothTileset>>),
      Tilemap(<<TileLayer(MapWidth - 1, MapHeight - 1, {}),
                TileLayer(MapWidth, MapHeight, {<<0, 1>>})>>,
              <<BothTileset>>),
      Tilemap(<<TileLayer(MapWidth, MapHeight, SmallWall)>>,
              <<FloorTileset>>) }

TileXs == -1..MapWidth
TileYs == -1..MapHeight

InitMap ==
    /\ mapLoader \in {NewMapLoader(map) : map \in MapShapes}
    /\ players = <<>>
    /\ enemies = <<>>
    /\ socketIdToPlayerId = NoSocket
    /\ playerIdToSocketId = NoPlayer
    /\ sockets = [s \in SocketIds |-> [status |-> "new", initSent |-> FALSE]]
    /\ db = [state |-> "connecting", docs |-> <<>>]
    /\ inits = {}
    /\ saves = {}
    /\ nextEnemyId = 1
    /\ lastUpdateTime = 0
    /\ running = TRUE
    /\ trace = <<>>

\* mapLoader.isTileBlocked(x, y)
IsTileBlockedCall(x, y) ==
    /\ trace' = <<[ev |-> "isTileBlocked", x |-> x, y |-> y,
                   result |-> IsTileBlocked(mapLoader, x, y)]>>
    /\ UNCHANGED <<mapLoader, players, enemies, socketIdToPlayerId,
                   playerIdToSocketId, sockets, db, inits, saves, nextEnemyId,
                   lastUpdateTime, running>>

NextMap == \E x \in TileXs, y \in TileYs : IsTileBlockedCall(x, y)

SpecMap == InitMap /\ [][NextMap]_vars

-----------------------------------------------------------------------------
(* Properties of Player.processInput, under SpecPlayer *)

TileOf(pos) == [x |-> pos.x \div TILE_SIZE, y |-> pos.y \div TILE_SIZE]

PositionBlocked(ml, pos) == IsTileBlocked(ml, TileOf(pos).x, TileOf(pos).y)

Bit(flag) == IF flag THEN 1 ELSE 0

\* The candidate position of a processInput event, by the rule of 3 units
\* per active axis
Candidate(event) ==
    [x |-> event.before.x + 3 * (Bit(event.input.right) - Bit(event.input.left)),
     y |-> event.before.y + 3 * (Bit(event.input.down) - Bit(event.input.up))]

ProcessInputEvents == {k \in DOMAIN trace : trace[k].ev = "processInput"}

\* C1, as stated: the tile that contains a player's position,
\* (floor(x/16), floor(y/16)), is never a collideable tile and never outside
\* the map.
C1_PositionTileFree ==
    \A i \in DOMAIN players : ~PositionBlocked(mapLoader, players[i].position)

\* C1, amended: the tile of the collision probe of a player's position,
\* (floor((x - 2)/16), floor((y + 16)/16)), is never a collideable tile and
\* never outside the map; the tile of the position itself may be either.
C1_ProbeTileFree ==
    \A i \in DOMAIN players : ~ProbeBlocked(mapLoader, players[i].position)

\* processInput has just moved the player onto a tile that is blocked.
C1_Witness ==
    /\ ProcessInputEvents # {}
    /\ players[1].position # trace[1].before
    /\ PositionBlocked(mapLoader, players[1].position)
    /\ ~PositionBlocked(mapLoader, trace[1].before)

\* C9: when the probe tile of the candidate position is not blocked,
\* processInput changes x by 3 * (right - left) and y by 3 * (down - up).
C9_StepPerAxis ==
    \A k \in ProcessInputEvents :
        ~ProbeBlocked(mapLoader, Candidate(trace[k]))
            => Get(players, trace[k].player).position = Candidate(trace[k])

\* (300, 200) with {right: true} has become (303, 200).
C9_Witness ==
    /\ ProcessInputEvents # {}
    /\ trace[1].before = [x |-> 300, y |-> 200]
    /\ trace[1].input = Input({"right"}, Null, Null)
    /\ players[1].position = [x |-> 303, y |-> 200]

\* C10: when the probe tile of the candidate position is blocked, the
\* position after processInput is the position before, on both axes.
C10_WholeMoveRejected ==
    \A k \in ProcessInputEvents :
        ProbeBlocked(mapLoader, Candidate(trace[k]))
            => Get(players, trace[k].player).position = trace[k].before

\* A diagonal move has been rejected where either of its axes alone was free.
C10_Witness ==
    /\ ProcessInputEvents # {}
    /\ trace[1].input.up /\ trace[1].input.right
    /\ ~trace[1].input.down /\ ~trace[1].input.left
    /\ players[1].position = trace[1].before
    /\ ~ProbeBlocked(mapLoader, [trace[1].before EXCEPT !.x = @ + 3])
    /\ ~ProbeBlocked(mapLoader, [trace[1].before EXCEPT !.y = @ - 3])

-----------------------------------------------------------------------------
(* Properties of Player.gainExp, under SpecExp *)

\* The reference rule: while exp >= level*100: exp -= level*100; level += 1
RECURSIVE LevelRule(_, _)
LevelRule(level, exp) ==
    IF exp >= level * 100 THEN LevelRule(level + 1, exp - level * 100)
    ELSE [level |-> level, exp |-> exp]

\* C3, as stated: after every gainExp call 0 <= exp < level*100, and
\* (level, exp) is what the reference rule gives.
C3_GainExpRule ==
    \A k \in DOMAIN trace :
        trace[k].ev = "gainExp" =>
            /\ 0 <= players[1].exp
            /\ players[1].exp < players[1].level * 100
            /\ [level |-> players[1].level, exp |-> players[1].exp]
                 = LevelRule(trace[k].level, trace[k].exp + trace[k].amount)

-----------------------------------------------------------------------------
(* Properties of the Enemy, under SpecEnemy *)

EnemyEvents(name) == {k \in DOMAIN trace : trace[k].ev = name}

\* The order of the player ids
PlayerIdOrder == <<"p1", "p2">>

IdRank(playerId) == SeqIndexOf([i \in DOMAIN PlayerIdOrder |->
                                   [key |-> PlayerIdOrder[i]]], playerId, 1)

\* The players within the detection radius of an enemy position
Detected(pos, ps) ==
    {i \in DOMAIN ps : DistanceSq(pos, ps[i].position) <= RadiusSq(DETECTION_RADIUS)}

\* Among them, those at the minimum distance
Nearest(pos, ps) ==
    {i \in Detected(pos, ps) :
        \A j \in Detected(pos, ps) :
            DistanceSq(pos, ps[i].position) <= DistanceSq(pos, ps[j].position)}

\* C4, as stated: an enemy without a valid target that runs findTarget with
\* players within the detection radius targets a player at the minimum
\* distance, and of several such players the one with the lowest id,
\* whatever the order the players were inserted in.
C4_NearestLowestId ==
    \A k \in EnemyEvents("findTarget") :
        (~trace[k].valid /\ Detected(trace[k].position, players) # {}) =>
            \E i \in Nearest(trace[k].position, players) :
                /\ trace[k].target = players[i].key
                /\ \A j \in Nearest(trace[k].position, players) :
                        IdRank(players[i].key) <= IdRank(players[j].key)

\* The enemy of a trace event
EnemyOf(event) == Get(enemies, event.enemy)

\* Whether move, called as the event records, finds the timer run out
TimerRanOut(event) == event.timer - event.deltaTime <= 0

-----------------------------------------------------------------------------
(* Properties of the tick, under SpecGame *)

Events(name) == {k \in DOMAIN trace : trace[k].ev = name}

Snapshots == {k \in Events("emit") : trace[k].name = "gameState"}

Attacks(playerId, events) ==
    {k \in DOMAIN events :
        events[k].ev = "handleAttack" /\ events[k].player = playerId}

\* C2: an attack a player has sent stays its pending action whatever input
\* it sends before the next tick, {up: true} without action included; that
\* tick resolves the attack and clears the pending input, and a tick
\* resolves an attack of a player only if its pending action is attack.
C2_PendingAttack ==
    [][\A i \in DOMAIN players :
        /\ (lastUpdateTime' = lastUpdateTime /\ IsAttacking(players[i]))
                => IsAttacking(players'[i])
        /\ lastUpdateTime' # lastUpdateTime
                => /\ players'[i].currentInput = EmptyInput
                   /\ IsAttacking(players[i])
                        <=> Attacks(players[i].key, trace') # {}]_vars

\* A tick has resolved the attack of a player whose pending input was
\* {up: true} with the attack carried into it.
C2_Witness ==
    \E k \in Events("processInput") :
        /\ trace[k].input.up
        /\ trace[k].input.action = "attack"
        /\ Attacks(trace[k].player, trace) # {}
        /\ Get(players, trace[k].player).currentInput = EmptyInput
        /\ Get(players, trace[k].player).position.y = trace[k].before.y - 3

\* The ids of the enemies that were spawned and are in the store no more
DeadIds == (1..(nextEnemyId - 1)) \ Keys(enemies)

Refers(event, id) ==
    /\ event.ev \in {"handleAttack", "findTarget", "performAction", "move"}
    /\ event.enemy = id

Kills(k, id) ==
    trace[k].ev = "handleAttack" /\ trace[k].isDead /\ trace[k].enemy = id

\* C6: an attack that leaves an enemy no health sets alive to false and
\* takes the enemy out of the store; no snapshot from then on has it, and
\* after the attack that killed it no attack, of another player in the same
\* tick included, and no step of the enemy loop selects or updates it.
C6_DeadEnemyGone ==
    /\ \A k \in Events("handleAttack") :
            (trace[k].enemy # 0 /\ trace[k].health <= 0) =>
                /\ trace[k].isDead
                /\ ~trace[k].alive
                /\ trace[k].enemy \in DeadIds
    /\ \A id \in DeadIds :
        /\ \A j \in DOMAIN trace :
                Refers(trace[j], id) => \E k \in j..Len(trace) : Kills(k, id)
        /\ \A j \in Snapshots :
                \A n \in DOMAIN trace[j].payload.enemies :
                    trace[j].payload.enemies[n].id # id
        /\ \A i \in DOMAIN enemies : enemies[i].id # id

\* In one tick a player has killed an enemy and the attack of the other
\* player, resolved after it, has hit another enemy.
C6_Witness ==
    \E k \in Events("handleAttack"), j \in Events("handleAttack") :
        /\ k < j
        /\ trace[k].isDead
        /\ trace[j].player # trace[k].player
        /\ trace[j].enemy \notin {0, trace[k].enemy}
        /\ Snapshots # {}

\* The ids of the enemies spawned in the last step
Spawned == {trace[k].enemy : k \in Events("spawn")}

\* C8: a tick emits one gameState snapshot, to all; its players are the
\* players of the store and its enemies the alive enemies of the store, those
\* spawned after it apart, each with the field values the store has after
\* the updates of the tick.
C8_SnapshotIsStore ==
    (trace # <<>> /\ trace[1].ev = "gameLoop") =>
        /\ Cardinality(Snapshots) = 1
        /\ \A k \in Snapshots :
            LET state == trace[k].payload
            IN  /\ trace[k].to = "all"
                /\ \A j \in Events("processInput") \cup Events("move") : j < k
                /\ \A j \in Events("spawn") : k < j
                /\ {state.players[n].playerId : n \in DOMAIN state.players}
                        = Keys(players)
                /\ Len(state.players) = Len(players)
                /\ \A n \in DOMAIN state.players :
                    LET d == state.players[n]
                        player == Get(players, d.playerId)
                    IN  /\ d.position = player.position
                        /\ d.level = player.level
                        /\ d.exp = player.exp
                        /\ d.health = player.health
                        /\ d.direction = player.direction
                        /\ d.action = player.action
                /\ {state.enemies[n].id : n \in DOMAIN state.enemies}
                        = {enemies[i].id : i \in {i \in DOMAIN enemies :
                                                    enemies[i].alive}} \ Spawned
                /\ Len(state.enemies) = Len(enemies) - Cardinality(Spawned)
                /\ \A n \in DOMAIN state.enemies :
                    LET d == state.enemies[n]
                        enemy == Get(enemies, d.id)
                    IN  /\ d.position = enemy.position
                        /\ d.health = enemy.health
                        /\ d.direction = enemy.direction
                        /\ d.action = enemy.action

\* A tick in which a player moved and an enemy was killed: the snapshot has
\* the player where the store has it and one enemy less than the store, the
\* enemy spawned after it.
C8_Witness ==
    /\ trace # <<>> /\ trace[1].ev = "gameLoop"
    /\ \E k \in Snapshots :
        /\ Len(trace[k].payload.enemies) = MAX_ENEMIES - 1
        /\ \E n \in DOMAIN trace[k].payload.players :
                trace[k].payload.players[n].position # DefaultPosition
    /\ Len(enemies) = MAX_ENEMIES
    /\ Spawned # {}

\* The player record but for its pending-input buffer.
SansInput(player) == [player EXCEPT !.currentInput = EmptyInput]

\* C17: handling a playerInput event changes only the sending player's
\* pending-input buffer: every player's other fields (position, direction,
\* action, level, exp, health), every other player's buffer and all enemy
\* state are unchanged.
C17_InputFrame ==
    [][\A s \in SocketIds, input \in ServerInputs :
        PlayerInput(s, input) =>
            /\ enemies' = enemies
            /\ Keys(players') = Keys(players)
            /\ \A i \in DOMAIN players :
                /\ SansInput(players'[i]) = SansInput(players[i])
                /\ players[i].key # socketIdToPlayerId[s] =>
                        players'[i] = players[i]]_vars

\* Between ticks p1 has buffered an attack while p2's buffer is empty and
\* both have been moved by an earlier tick.
C17_Witness ==
    /\ trace = <<>>
    /\ lastUpdateTime > 0
    /\ Get(players, "p1").currentInput.action = "attack"
    /\ Get(players, "p2").currentInput = EmptyInput
    /\ Get(players, "p2").position # DefaultPosition

-----------------------------------------------------------------------------
(* Properties of the sockets, under Spec *)

\* The players an "init" of socket s has stored
PlayersOfSocket(s) == {i \in DOMAIN players : players[i].initSocket = s}

\* C7, as stated: once the disconnect handler of a socket has run, no player
\* of that socket is in the store and neither mapping mentions the socket.
C7_DisconnectedSocketGone ==
    \A s \in SocketIds :
        sockets[s].status = "disconnected" =>
            /\ PlayersOfSocket(s) = {}
            /\ socketIdToPlayerId[s] = Null
            /\ \A playerId \in PlayerIds : playerIdToSocketId[playerId] # s

\* The socket has no player in the store.
NoPlayerOf(s) ==
    socketIdToPlayerId[s] = Null \/ ~Has(players, socketIdToPlayerId[s])

TickState == [players |-> players, enemies |-> enemies, saves |-> saves,
              trace |-> <<>>]

\* C18: a playerInput event from a socket that has no player in the store,
\* a disconnect of a socket that never sent "init", and handleAttack for a
\* player id that is not in the store change no simulation state, emit
\* nothing and raise no error.
C18_UnknownNoOp ==
    [][/\ \A s \in SocketIds, input \in ServerInputs :
            PlayerInput(s, input) /\ NoPlayerOf(s) =>
                /\ UNCHANGED <<players, enemies, socketIdToPlayerId,
                               playerIdToSocketId, db, inits, saves,
                               nextEnemyId, running>>
                /\ trace' = <<>>
       /\ \A s \in SocketIds :
            Disconnect(s) /\ socketIdToPlayerId[s] = Null =>
                /\ UNCHANGED <<players, enemies, socketIdToPlayerId,
                               playerIdToSocketId, db, inits, saves,
                               nextEnemyId, running>>
                /\ \A k \in DOMAIN trace' : trace'[k].ev # "emit"
       /\ \A playerId \in PlayerIds :
            /\ ~Has(players, playerId) =>
                    HandleAttack(TickState, playerId) = TickState
            /\ ~Has(players', playerId) =>
                    HandleAttack(TickState', playerId) = TickState']_vars

\* s2 has disconnected without ever sending "init"; s1, whose "init"
\* handler has not yet stored its player, has just sent a playerInput.
C18_Witness ==
    /\ trace = <<>>
    /\ sockets["s2"] = [status |-> "disconnected", initSent |-> FALSE]
    /\ sockets["s1"].status = "connected"
    /\ socketIdToPlayerId["s1"] # Null
    /\ NoPlayerOf("s1")
    /\ enemies # <<>>

-----------------------------------------------------------------------------
(* Properties of combat, under SpecCombat *)

\* The step is a run of gameLoop
Tick == lastUpdateTime' # lastUpdateTime

AttackEvents(events) == {k \in DOMAIN events : events[k].ev = "handleAttack"}

\* The attacks on enemy id among the first k events
HitsUpTo(events, k, id) ==
    {j \in AttackEvents(events) : j <= k /\ events[j].enemy = id}

\* The enemies killed before event k
KilledBefore(events, k) ==
    {events[j].enemy : j \in {j \in AttackEvents(events) :
                                j < k /\ events[j].isDead}}

\* The enemies of the store, as it is before the tick, that attack k of the
\* tick finds alive within the attack radius of its player
InReach(events, k) ==
    {i \in DOMAIN enemies :
        /\ enemies[i].alive
        /\ enemies[i].id \notin KilledBefore(events, k)
        /\ DistanceSq(enemies[i].position,
                      Get(players, events[k].player).position) < 50 * SUB * 50 * SUB}

\* C11: a tick resolves one attack for each player whose buffered action is
\* attack and none for the others; the attack takes 10 health from an alive
\* enemy at the least distance among those less than 50 away and from no
\* other, and changes no enemy when there is none.
C11_OneAttackNearest ==
    [][Tick =>
        /\ \A i \in DOMAIN players :
            Cardinality(Attacks(players[i].key, trace'))
                = IF IsAttacking(players[i]) THEN 1 ELSE 0
        /\ \A k \in AttackEvents(trace') :
            IF InReach(trace', k) = {} THEN trace'[k].enemy = 0
            ELSE \E i \in InReach(trace', k) :
                    /\ trace'[k].enemy = enemies[i].id
                    /\ \A j \in InReach(trace', k) :
                        DistanceSq(enemies[i].position,
                                   Get(players, trace'[k].player).position)
                          <= DistanceSq(enemies[j].position,
                                   Get(players, trace'[k].player).position)
                    /\ trace'[k].health = enemies[i].health
                          - 10 * Cardinality(HitsUpTo(trace', k, enemies[i].id))
        /\ \A i \in DOMAIN enemies :
            LET hits == HitsUpTo(trace', Len(trace'), enemies[i].id)
            IN  IF Has(enemies', enemies[i].id)
                THEN Get(enemies', enemies[i].id).health
                        = enemies[i].health - 10 * Cardinality(hits)
                ELSE \E k \in hits : trace'[k].isDead]_vars

\* In one tick the attack of p1 has killed the nearest enemy, 30 away, and
\* the attack of p2 has then taken 10 health from the next, 40 away.
C11_Witness ==
    \E k \in Events("handleAttack"), j \in Events("handleAttack") :
        /\ k < j
        /\ trace[k].player = "p1" /\ trace[k].enemy = 2 /\ trace[k].isDead
        /\ trace[j].player = "p2" /\ trace[j].enemy = 1 /\ trace[j].health = 10
        /\ Get(enemies, 3).health = ENEMY_HEALTH

\* All the exp a player has gained: its exp and the 100 * l spent on each
\* level l it has left
TotalExp(player) == player.exp + 50 * player.level * (player.level - 1)

KillsOf(playerId, events) ==
    {k \in Attacks(playerId, events) : events[k].isDead}

SaveEvents(events) == {k \in DOMAIN events : events[k].ev = "updateOne"}

\* C12: in a tick a player gains 50 exp for each enemy its attack has left
\* without health and nothing otherwise; for each such attack one save with
\* the level and exp the player then has is issued, and none otherwise; the
\* enemy is out of the store when the tick ends.
C12_KillReward ==
    [][Tick =>
        /\ \A i \in DOMAIN players :
            LET playerId == players[i].key
                kills == KillsOf(playerId, trace')
                after == Get(players', playerId)
                mine == {k \in SaveEvents(trace') :
                            trace'[k].save.playerId = playerId}
            IN  /\ Has(players', playerId)
                /\ TotalExp(after) = TotalExp(players[i]) + 50 * Cardinality(kills)
                /\ Cardinality(mine) = Cardinality(kills)
                /\ \A k \in mine :
                    /\ trace'[k].save.exp = after.exp
                    /\ trace'[k].save.level = after.level
                    /\ trace'[k].save \in saves'
        /\ saves' = saves \cup {trace'[k].save : k \in SaveEvents(trace')}
        /\ \A k \in AttackEvents(trace') :
            /\ trace'[k].isDead <=> (trace'[k].enemy # 0 /\ trace'[k].health <= 0)
            /\ trace'[k].isDead => ~Has(enemies', trace'[k].enemy)]_vars

\* In one tick p1 has killed an enemy and holds level 2 with exp 0, which
\* the one save in flight carries, while p2, whose attack another enemy has
\* survived, has gained nothing.
C12_Witness ==
    /\ KillsOf("p1", trace) # {}
    /\ Attacks("p2", trace) # {} /\ KillsOf("p2", trace) = {}
    /\ Get(players, "p1").level = 2 /\ Get(players, "p1").exp = 0
    /\ Get(players, "p2").level = 1 /\ Get(players, "p2").exp = 0
    /\ saves = {[playerId |-> "p1", exp |-> 0, level |-> 2]}

\* The enemies that the gameState and init payloads of the last step report
ReportedEnemies ==
    UNION {SeqRange(trace[k].payload.enemies) :
            k \in {k \in Events("emit") : trace[k].name \in {"gameState", "init"}}}

\* The health of the enemy of attack k before that attack
HealthBefore(events, k) ==
    Get(enemies, events[k].enemy).health
        - 10 * (Cardinality(HitsUpTo(events, k, events[k].enemy)) - 1)

\* C13: an attack on an enemy with health 30 leaves it alive with 20, one
\* on an enemy with 20 alive with 10, one on an enemy with 10 not alive with
\* health 0 or less; and no gameState or init payload reports an enemy
\* whose health is 0 or less.
C13_ThreeAttacks ==
    [][/\ Tick =>
            \A k \in {k \in AttackEvents(trace') : trace'[k].enemy # 0} :
                LET before == HealthBefore(trace', k)
                IN  /\ before = 30 =>
                            trace'[k].health = 20 /\ trace'[k].alive
                                /\ ~trace'[k].isDead
                    /\ before = 20 =>
                            trace'[k].health = 10 /\ trace'[k].alive
                                /\ ~trace'[k].isDead
                    /\ before = 10 =>
                            trace'[k].health <= 0 /\ ~trace'[k].alive
                    /\ before \in {10, 20, 30}
       /\ (\A d \in ReportedEnemies : d.health > 0)']_vars

\* An enemy spawned with health 30 has taken two attacks in one tick, is
\* reported with health 10, and has taken the third in the next.
C13_Witness ==
    /\ \E k \in Events("handleAttack") :
            trace[k].enemy = 1 /\ trace[k].health = 0 /\ ~trace[k].alive
    /\ ~Has(enemies, 1)
    /\ Get(enemies, 2).health = ENEMY_HEALTH
    /\ Get(enemies, 2).position.x = 300 * SUB
    /\ lastUpdateTime = 2 * SlowTick
    /\ \A d \in ReportedEnemies : d.id # 1

-----------------------------------------------------------------------------
(* Properties of MapLoader.isTileBlocked, under SpecMap *)

InMapBounds(map, x, y) == x >= 0 /\ x < map.width /\ y >= 0 /\ y < map.height

\* The tile id gid is flagged collideable in a tileset of the map.
Flagged(map, gid) ==
    \E ts \in SeqRange(map.tilesets) :
        \E tile \in SeqRange(ts.tiles) :
            tile.collideable /\ gid = ts.firstgid + tile.id

\* Some tile layer has a cell at (x, y) and it holds a flagged tile id.
FlaggedCell(map, x, y) ==
    \E layer \in SeqRange(map.layers) :
        /\ layer.type = TILE_LAYER
        /\ x >= 0 /\ x < layer.width /\ y >= 0 /\ y < layer.height
        /\ Flagged(map, layer.data[y * layer.width + x + 1])

\* C14: for every map shape, isTileBlocked(x, y) is true for coordinates
\* outside the map bounds, and for coordinates in bounds it is true exactly
\* when some tile layer's cell at (x, y) holds a tile id flagged collideable.
C14_BlockedRule ==
    \A k \in DOMAIN trace :
        trace[k].ev = "isTileBlocked" =>
            trace[k].result =
                (\/ ~InMapBounds(mapLoader.map, trace[k].x, trace[k].y)
                 \/ FlaggedCell(mapLoader.map, trace[k].x, trace[k].y))

-----------------------------------------------------------------------------
(* Properties of the enemy population, under Spec and SpecSpawn *)

\* C15: while the database connection has not succeeded (pending or
\* failed), the enemy store is empty.
C15_NoSpawnBeforeConnect == db.state # "connected" => enemies = <<>>

\* C16: the number of enemies in the store never exceeds MAX_ENEMIES.
C16_PopulationCap == Len(enemies) <= MAX_ENEMIES

\* The database connects after a tick has filled the store, and later an
\* enemy is killed and replaced.
C16_Witness ==
    /\ Len(enemies) = MAX_ENEMIES
    /\ nextEnemyId > MAX_ENEMIES + 1
    /\ db.state = "connected"

-----------------------------------------------------------------------------
(* Properties of the input buffer, under SpecGame *)

\* C19: after a tick every player's pending-input buffer is empty, and a
\* player whose buffer was empty when the tick began (no playerInput since
\* the previous tick) keeps its position and has no attack resolved.
C19_InputResolvedOnce ==
    [][Tick =>
        \A playerId \in PlayerIds :
            Has(players', playerId) =>
                /\ Get(players', playerId).currentInput = EmptyInput
                /\ (/\ Has(players, playerId)
                    /\ Get(players, playerId).currentInput = EmptyInput) =>
                        /\ Get(players', playerId).position =
                                Get(players, playerId).position
                        /\ Attacks(playerId, trace') = {}]_vars

\* A tick has processed the empty buffer of p1, who had moved in an
\* earlier tick, while it resolved an attack of p2.
C19_Witness ==
    /\ \E k \in Events("processInput") :
            trace[k].player = "p1" /\ trace[k].input = EmptyInput
    /\ Get(players, "p1").position # DefaultPosition
    /\ Attacks("p2", trace) # {}

-----------------------------------------------------------------------------
(* Properties of the levelUp event, under SpecCombat *)

LevelUps(events) ==
    {k \in DOMAIN events : events[k].ev = "emit" /\ events[k].name = "levelUp"}

\* The level of the player rose in this step.
LevelRose(playerId) ==
    /\ Has(players, playerId)
    /\ Has(players', playerId)
    /\ Get(players', playerId).level > Get(players, playerId).level

\* C20: a tick emits levelUp exactly when a kill's exp gain raises a
\* player's level: every levelUp goes to a socket of a player whose level
\* rose and carries that player's new level, and every player whose level
\* rose has such a levelUp sent to its socket.
C20_LevelUpToLeveller ==
    [][Tick =>
        /\ \A k \in LevelUps(trace') :
            \E playerId \in PlayerIds :
                /\ LevelRose(playerId)
                /\ socketIdToPlayerId[trace'[k].to] = playerId
                /\ trace'[k].payload = Get(players', playerId).level
        /\ \A playerId \in PlayerIds :
            LevelRose(playerId) =>
                \E k \in LevelUps(trace') :
                    /\ socketIdToPlayerId[trace'[k].to] = playerId
                    /\ trace'[k].payload = Get(players', playerId).level]_vars

-----------------------------------------------------------------------------
(* Properties of the persisted player records, under Spec *)

\* C21: the database holds at most one player record for every playerId.
C21_OneRecordPerPlayer ==
    \A i, j \in DOMAIN db.docs :
        db.docs[i].playerId = db.docs[j].playerId => i = j

-----------------------------------------------------------------------------
(* Properties of Player.setInput, under SpecPlayer and SpecBuffer *)

\* The directional flags and the direction of an input.
Steering(input) ==
    [left |-> input.left, right |-> input.right, up |-> input.up,
     down |-> input.down, direction |-> input.direction]

\* C22: after setInput(m) the buffered directional flags and the buffered
\* direction are exactly those of m, whatever was buffered before.
C22_FlagsReplaced ==
    [][\A input \in PlayerInputs :
        SetInputCall(input) =>
            Steering(players'[1].currentInput) = Steering(input)]_vars

\* A message with the up flag alone has replaced a buffer that earlier
\* messages, an attack among them, had filled.
C22_Witness ==
    /\ Len(trace) = 1
    /\ trace[1].ev = "setInput"
    /\ trace[1].input = Input({"up"}, Null, Null)
    /\ players[1].currentInput = Input({"up"}, Null, "attack")

\* C23: once an attack is buffered, isAttacking() stays true through every
\* further setInput, with no action or with action "idle" or "walk", and
\* becomes false only when processInput consumes the buffer, which it does.
C23_AttackSticky ==
    [][/\ \A input \in BufferInputs :
            SetInputCall(input) /\ IsAttacking(players[1]) =>
                IsAttacking(players'[1])
       /\ IsAttacking(players[1]) /\ ~IsAttacking(players'[1]) =>
                ProcessInputCall
       /\ ProcessInputCall => ~IsAttacking(players'[1])]_vars

\* A message that sets action "idle" has reached a buffer holding an attack.
C23_Witness ==
    /\ Len(trace) = 1
    /\ trace[1].ev = "setInput"
    /\ trace[1].input.action = "idle"
    /\ IsAttacking(players[1])

-----------------------------------------------------------------------------
(* Properties of the order of a tick, under SpecGame *)

PlayerSteps == Events("handleAttack") \cup Events("processInput")
EnemySteps ==
    (Events("findTarget") \cup Events("performAction")) \cup Events("move")

\* C24: in every tick all players' buffered input is resolved, an attack
\* in the same pass as its player's processInput, before any enemy
\* acquires a target; each alive enemy acquires its target and then steps;
\* an enemy killed in the tick does not step; and the snapshot is taken
\* after every enemy it reports has stepped.
C24_TickOrder ==
    (trace # <<>> /\ trace[1].ev = "gameLoop") =>
        /\ \A i \in PlayerSteps, j \in EnemySteps : i < j
        /\ \A playerId \in Keys(players) :
            Cardinality({k \in Events("processInput") :
                            trace[k].player = playerId}) = 1
        /\ \A k \in Events("handleAttack") :
            \E j \in Events("processInput") :
                /\ k < j
                /\ trace[j].player = trace[k].player
                /\ \A i \in Events("processInput") : ~(k < i /\ i < j)
        /\ \A k \in Events("findTarget") :
            /\ k + 2 <= Len(trace)
            /\ trace[k + 1].ev = "performAction"
            /\ trace[k + 1].enemy = trace[k].enemy
            /\ trace[k + 2].ev = "move"
            /\ trace[k + 2].enemy = trace[k].enemy
        /\ Cardinality(Events("move")) = Cardinality(Events("findTarget"))
        /\ \A k \in Events("handleAttack"), j \in Events("findTarget") :
            trace[k].isDead => trace[j].enemy # trace[k].enemy
        /\ \A s \in Snapshots :
            /\ \A j \in EnemySteps : j < s
            /\ \A n \in DOMAIN trace[s].payload.enemies :
                \E k \in Events("move") :
                    trace[k].enemy = trace[s].payload.enemies[n].id

\* A tick in which p2 has killed an enemy after p1's input was resolved,
\* the other enemies have stepped and the snapshot was sent.
C24_Witness ==
    /\ \E k \in Events("handleAttack"), j \in Events("processInput") :
            j < k /\ trace[k].isDead /\ trace[k].player = "p2"
                  /\ trace[j].player = "p1"
    /\ Cardinality(Events("move")) = MAX_ENEMIES - 1
    /\ Snapshots # {}

-----------------------------------------------------------------------------
(* Properties of the enemies' targets, under SpecChase *)

\* No player of ps is within the detection radius of the enemy, and its
\* target is not among ps or is farther than the detection radius.
TargetLost(e, ps) ==
    /\ e.targetPlayerId # Null
    /\ \A i \in DOMAIN ps :
        DistanceSq(e.position, ps[i].position) > RadiusSq(DETECTION_RADIUS)

\* C25: an enemy whose target has moved farther than the detection radius,
\* or has left, while no other player is within the radius, has after the
\* next tick no target, action idle and velocity zero.
C25_LostTargetCleared ==
    [][Tick =>
        \A i \in DOMAIN enemies :
            (TargetLost(enemies[i], players) /\ TargetLost(enemies[i], players')
             /\ Has(enemies', enemies[i].id)) =>
                LET e == Get(enemies', enemies[i].id)
                IN  /\ e.targetPlayerId = Null
                    /\ e.action = "idle"
                    /\ e.velocity = Zero]_vars

\* The findTarget calls of the last tick that gave the enemy a new target.
Acquisitions ==
    {k \in Events("findTarget") :
        ~trace[k].valid /\ trace[k + 2].target # Null}

\* C26: in the tick in which an enemy acquires a new target its cycle
\* restarts: findTarget leaves it at cycle index 0 with the timer at the
\* hop's duration, and the tick ends with the enemy hopping at index 0,
\* whatever its index and action were before, confused included.
C26_AcquireRestartsCycle ==
    \A k \in Acquisitions :
        /\ trace[k + 2].index = 0
        /\ trace[k + 2].timer = MOVE_DURATION
        /\ trace[k + 2].target = trace[k].target
        /\ Has(enemies, trace[k].enemy) =>
            LET e == Get(enemies, trace[k].enemy)
            IN  /\ e.targetPlayerId = trace[k].target
                /\ e.currentActionIndex = 0
                /\ e.action = "hop"
                /\ e.actionTimer = MOVE_DURATION - trace[k + 2].deltaTime

\* In the second tick an enemy that an attack of this tick had left
\* confused has acquired a target.
C26_Witness ==
    /\ lastUpdateTime = 2 * SlowTick
    /\ \E k \in Acquisitions, j \in Events("handleAttack") :
            /\ trace[j].enemy = trace[k].enemy
            /\ ~trace[j].isDead

\* The cycle and the length of each action in ticks of TICK_INTERVAL ms:
\* hop 1000 ms, longJump 600 ms, idle 1000 ms.
CycleOrder == <<"hop", "idle", "longJump", "idle", "idle">>
TicksOf(action) ==
    CASE action = "hop" -> 20
      [] action = "longJump" -> 12
      [] action = "idle" -> 20

\* C27: an enemy that keeps a live target goes through hop, idle, longJump,
\* idle, idle again and again; its timer runs down by the tick's 50 ms, and
\* when it reaches 0 the cycle index goes up by one modulo 5 and the timer
\* is set to the whole length of the action entered, so that every action
\* lasts exactly its 20, 12 or 20 ticks.
C27_CycleTiming ==
    [][Tick =>
        \A i \in DOMAIN enemies :
            (TargetAlive(enemies[i], players')
             /\ Has(enemies', enemies[i].id)) =>
                LET e == enemies[i]
                    f == Get(enemies', enemies[i].id)
                IN  /\ e.action = CycleOrder[e.currentActionIndex + 1]
                    /\ f.targetPlayerId = e.targetPlayerId
                    /\ IF e.actionTimer <= TICK_INTERVAL
                       THEN /\ f.currentActionIndex =
                                    (e.currentActionIndex + 1) % 5
                            /\ f.action = CycleOrder[f.currentActionIndex + 1]
                            /\ f.actionTimer = TicksOf(f.action) * TICK_INTERVAL
                       ELSE /\ f.currentActionIndex = e.currentActionIndex
                            /\ f.action = e.action
                            /\ f.actionTimer = e.actionTimer - TICK_INTERVAL
                    /\ f.actionTimer \in
                            {k * TICK_INTERVAL : k \in 1..TicksOf(f.action)}]_vars

\* An enemy has gone through the whole cycle with its target and begins
\* the hop for the second time.
C27_Witness ==
    \E i \in DOMAIN enemies :
        /\ enemies[i].targetPlayerId = "p1"
        /\ enemies[i].currentActionIndex = 0
        /\ enemies[i].action = "hop"
        /\ enemies[i].actionTimer = MOVE_DURATION
        /\ lastUpdateTime = 92 * TICK_INTERVAL

-----------------------------------------------------------------------------
(* Properties of Enemy.takeDamage, under SpecDamage *)

\* C28: damage that an enemy survives leaves it alive with action
\* confused, zero velocity and actionTimer 1000 ms, its cycle index, its
\* target and its position as they were; and an enemy becomes confused in
\* no other step.
C28_SurvivedDamage ==
    [][/\ \A i \in DOMAIN enemies :
            (TakeDamageCall(i) /\ enemies[i].health > ATTACK_DAMAGE) =>
                /\ Len(enemies') = Len(enemies)
                /\ enemies'[i].alive
                /\ enemies'[i].health = enemies[i].health - ATTACK_DAMAGE
                /\ enemies'[i].action = "confused"
                /\ enemies'[i].velocity = Zero
                /\ enemies'[i].actionTimer = 1000
                /\ enemies'[i].currentActionIndex =
                        enemies[i].currentActionIndex
                /\ enemies'[i].targetPlayerId = enemies[i].targetPlayerId
                /\ enemies'[i].position = enemies[i].position
       /\ \A i \in DOMAIN enemies' :
            (/\ enemies'[i].action = "confused"
             /\ \A j \in DOMAIN enemies :
                    enemies[j].id = enemies'[i].id =>
                        enemies[j].action # "confused") =>
                \E j \in DOMAIN enemies :
                    /\ enemies[j].id = enemies'[i].id
                    /\ TakeDamageCall(j)]_vars

\* An enemy in its long jump towards its target has been hit and survives.
C28_Witness ==
    /\ Len(trace) = 1
    /\ trace[1].ev = "takeDamage"
    /\ ~trace[1].isDead
    /\ \E i \in DOMAIN enemies :
        /\ enemies[i].action = "confused"
        /\ enemies[i].currentActionIndex = 2
        /\ enemies[i].targetPlayerId # Null
        /\ enemies[i].health = ENEMY_HEALTH - ATTACK_DAMAGE

-----------------------------------------------------------------------------
(* Properties of the confused enemy, under SpecCombat *)

\* The enemy was hit by an attack among the events, and survived.
HitIn(events, id) ==
    \E k \in AttackEvents(events) :
        events[k].enemy = id /\ ~events[k].isDead

\* C29: an enemy hit in a tick is confused with zero velocity after it, and
\* a confused enemy that is not hit again stays confused with zero
\* velocity at its cycle index while its timer has not run out, and leaves
\* confused for the next index of the cycle in the tick in which it does.
C29_ConfusedForPause ==
    [][Tick =>
        \A i \in DOMAIN enemies :
            Has(enemies', enemies[i].id) =>
                LET e == enemies[i]
                    f == Get(enemies', enemies[i].id)
                    deltaTime == lastUpdateTime' - lastUpdateTime
                    pause == deltaTime < PAUSE_DURATION
                              /\ (HitIn(trace', e.id)
                                  \/ (e.action = "confused"
                                      /\ e.actionTimer > deltaTime))
                IN  /\ pause =>
                        /\ f.action = "confused"
                        /\ f.velocity = Zero
                        /\ f.currentActionIndex = e.currentActionIndex
                    /\ (e.action = "confused" /\ ~pause) =>
                        /\ f.action # "confused"
                        /\ f.currentActionIndex =
                                (e.currentActionIndex + 1) % Len(actionCycle)]_vars

-----------------------------------------------------------------------------
(* Properties of the player's facing, under SpecBuffer *)

\* C30: after processInput the player's direction is the buffered input's
\* direction if it has one and is otherwise unchanged, and so is the
\* player's action, whether the move was applied or rejected.
C30_FacingAndAction ==
    [][ProcessInputCall =>
        LET input == players[1].currentInput
        IN  /\ players'[1].direction =
                    IF input.direction # Null THEN input.direction
                    ELSE players[1].direction
            /\ players'[1].action =
                    IF input.action # Null THEN input.action
                    ELSE players[1].action]_vars

\* processInput has rejected a move to the left and the player faces left
\* and walks.
C30_Witness ==
    /\ Len(trace) = 1
    /\ trace[1].ev = "processInput"
    /\ trace[1].input = Input({"left"}, "left", "walk")
    /\ players[1].position = trace[1].before
    /\ players[1].direction = "left"
    /\ players[1].action = "walk"

-----------------------------------------------------------------------------
(* Properties of the elapsed time of a tick, under SpecGame *)

\* Every player the last tick has moved has gone PLAYER_SPEED px/s for dt
\* ms along each axis it moved on.
PlayersUse(dt) ==
    \A k \in Events("processInput") :
        Has(players, trace[k].player) =>
            LET after == Get(players, trace[k].player).position
                step == (PLAYER_SPEED * dt) \div 1000
            IN  /\ Abs(after.x - trace[k].before.x) \in {0, step}
                /\ Abs(after.y - trace[k].before.y) \in {0, step}

\* Every enemy the last tick has stepped, and whose timer did not run out,
\* has had dt ms taken from its timer.
EnemiesUse(dt) ==
    \A k \in Events("move") :
        (Has(enemies, trace[k].enemy) /\ trace[k].timer > trace[k].deltaTime
         /\ trace[k].timer > dt) =>
            Get(enemies, trace[k].enemy).actionTimer = trace[k].timer - dt

\* C31: within a tick one elapsed-time value, the nominal TICK_INTERVAL or
\* the measured delta, scales the players' displacement and the enemies'
\* timers alike.
C31_OneElapsedTime ==
    (trace # <<>> /\ trace[1].ev = "gameLoop") =>
        \E dt \in {TICK_INTERVAL, trace[1].deltaTime} :
            PlayersUse(dt) /\ EnemiesUse(dt)

-----------------------------------------------------------------------------
(* Properties of the socket mappings, under SpecCombat *)

\* The "init" handler of the socket has run to its end and the socket has
\* not disconnected.
InitCompleted(s) ==
    /\ sockets[s].status = "connected"
    /\ sockets[s].initSent
    /\ \A h \in inits : h.socket # s

\* C32: for every connected socket s whose init has completed,
\* socketIdToPlayerId[s] = p implies playerIdToSocketId[p] = s and p is in
\* the player store.
C32_MappingsAgree ==
    \A s \in SocketIds :
        (InitCompleted(s) /\ socketIdToPlayerId[s] # Null) =>
            /\ playerIdToSocketId[socketIdToPlayerId[s]] = s
            /\ Has(players, socketIdToPlayerId[s])

-----------------------------------------------------------------------------
(* Properties of the enemies' state, under SpecCombat and SpecDamage *)

\* C33: at the end of every tick each enemy's targetPlayerId is unset or
\* the id of a player in the player store.
C33_TargetInStore ==
    (trace # <<>> /\ trace[1].ev = "gameLoop") =>
        \A i \in DOMAIN enemies :
            \/ enemies[i].targetPlayerId = Null
            \/ Has(players, enemies[i].targetPlayerId)

\* A tick has found an enemy with a target that had left the store and
\* no other player near, and has ended with the enemy without target.
C33_Witness ==
    /\ trace # <<>>
    /\ trace[1].ev = "gameLoop"
    /\ \E k \in Events("findTarget") :
        /\ trace[k].target # Null
        /\ ~Has(players, trace[k].target)
        /\ Has(enemies, trace[k].enemy)
        /\ Get(enemies, trace[k].enemy).targetPlayerId = Null

\* C34: an enemy whose action is idle or confused has zero velocity, and an
\* enemy whose action is hop or longJump has a targetPlayerId set.
C34_ActionShape ==
    \A i \in DOMAIN enemies :
        /\ enemies[i].action \in {"idle", "confused"} =>
                enemies[i].velocity = Zero
        /\ enemies[i].action \in {"hop", "longJump"} =>
                enemies[i].targetPlayerId # Null

\* An enemy that was hit and confused has gone on to its long jump
\* towards its target.
C34_Witness ==
    \E i \in DOMAIN enemies :
        /\ enemies[i].action = "longJump"
        /\ enemies[i].velocity # Zero
        /\ enemies[i].targetPlayerId # Null
        /\ enemies[i].health < ENEMY_HEALTH

-----------------------------------------------------------------------------
(* Properties of the players' exp, under SpecCombat *)

ExpInRange(r) == 0 <= r.exp /\ r.exp < r.level * 100

\* C35: with exp granted only as the 50 of a kill, every player in the
\* store and every player record of the database has 0 <= exp < level*100
\* after every step, and one kill raises the player's level by at most 1.
C35_ExpInRange ==
    [][/\ \A i \in DOMAIN players' : ExpInRange(players'[i])
       /\ \A i \in DOMAIN db'.docs : ExpInRange(db'.docs[i])
       /\ Tick =>
            \A playerId \in PlayerIds :
                (Has(players, playerId) /\ Has(players', playerId)) =>
                    LET rise == Get(players', playerId).level
                                    - Get(players, playerId).level
                    IN  /\ rise >= 0
                        /\ rise <= 1
                        /\ rise <= Cardinality(KillsOf(playerId, trace'))]_vars

\* p1 has been loaded again from the record that the save of its level-up
\* had written: level 2 with exp 0.
C35_Witness ==
    /\ trace # <<>>
    /\ trace[1].ev = "initDone"
    /\ trace[1].playerId = "p1"
    /\ Get(players, "p1").level = 2
    /\ Get(players, "p1").exp = 0

-----------------------------------------------------------------------------
(* Properties of the enemies' positions, under SpecEdge *)

\* C36: every enemy's position satisfies 0 <= x <= 800 and 0 <= y <= 600.
C36_InBounds ==
    \A i \in DOMAIN enemies :
        /\ 0 <= enemies[i].position.x
        /\ enemies[i].position.x <= 800 * SUB
        /\ 0 <= enemies[i].position.y
        /\ enemies[i].position.y <= 600 * SUB

\* An enemy that went for a player at the right edge has been stopped at
\* x = 800.
C36_Witness ==
    /\ Events("move") # {}
    /\ \E i \in DOMAIN enemies :
        /\ enemies[i].position.x = 800 * SUB
        /\ enemies[i].targetPlayerId = "p1"

=============================================================================
